---------------------------- MODULE Spec2Model ----------------------------
(***************************************************************************)
(* Transform hierarchy of the scene graph (src/src/scene_object.py,        *)
(* src/src/primitives/base_scene_object.py) with the 4x4 transform         *)
(* composition of src/src/datatypes/transform.py.                          *)
(*                                                                         *)
(* Nodes are BaseSceneObject instances (Sphere, Cylinder): the classes     *)
(* that inherit set_parent/add_child/remove_child/set_pose unchanged and   *)
(* add set_scaling.  Matrices are exact integer 4x4 matrices: poses are    *)
(* restricted to integer translations and to rotation vectors that are a   *)
(* whole number of quarter turns about one coordinate axis, on which       *)
(* Rodrigues' formula is exact.                                            *)
(***************************************************************************)
EXTENDS Integers, Sequences, FiniteSets, TLC

\* Number of node identities that can be constructed.
NumNodes == 3

Node == 1..NumNodes

\* Python's None where a node is expected (parent fields, parent arguments).
None == 0

\* Python's None where a matrix is expected (the caches before their first fill).
NoMatrix == <<>>

------------------------------------------------------------------------------
(* 4x4 matrices: numpy arrays as rows of entries.                          *)

Idx4 == 1..4

\* np.eye(4)
Eye4 == << <<1, 0, 0, 0>>, <<0, 1, 0, 0>>, <<0, 0, 1, 0>>, <<0, 0, 0, 1>> >>

\* numpy's A @ B.
MatMul(A, B) ==
    [i \in Idx4 |-> [j \in Idx4 |->
        A[i][1] * B[1][j] + A[i][2] * B[2][j] + A[i][3] * B[3][j] + A[i][4] * B[4][j]]]

Abs(x) == IF x < 0 THEN -x ELSE x

\* sin and cos of an angle given in quarter turns (the unit of rotation vectors here).
SinQ(k) == CASE k % 4 = 0 -> 0 [] k % 4 = 1 -> 1 [] k % 4 = 2 -> 0 [] OTHER -> -1
CosQ(k) == CASE k % 4 = 0 -> 1 [] k % 4 = 1 -> 0 [] k % 4 = 2 -> -1 [] OTHER -> 0

\* axis_angle_to_rotation_matrix, embedded in 4x4 by rotation_to_matrix:
\* angle = |r|, the identity when the angle is zero, otherwise axis = r / angle and
\* R = I + sin(angle) K + (1 - cos(angle)) K K with K the cross-product matrix of the
\* axis (x, y, z); the entries below are that sum written out for a unit axis.
rotation_to_matrix(r) ==
    LET angle == Abs(r[1]) + Abs(r[2]) + Abs(r[3])
    IN  IF angle = 0 THEN Eye4
        ELSE LET x  == r[1] \div angle
                 y  == r[2] \div angle
                 z  == r[3] \div angle
                 sn == SinQ(angle)
                 vc == 1 - CosQ(angle)
             IN  << <<1 - vc * (y * y + z * z), vc * x * y - sn * z, vc * x * z + sn * y, 0>>,
                    <<vc * x * y + sn * z, 1 - vc * (x * x + z * z), vc * y * z - sn * x, 0>>,
                    <<vc * x * z - sn * y, vc * y * z + sn * x, 1 - vc * (x * x + y * y), 0>>,
                    <<0, 0, 0, 1>> >>

\* translation_to_matrix: identity with the translation in the last column.
translation_to_matrix(t) ==
    << <<1, 0, 0, t[1]>>, <<0, 1, 0, t[2]>>, <<0, 0, 1, t[3]>>, <<0, 0, 0, 1>> >>

\* scaling_to_matrix: diagonal scale matrix.
scaling_to_matrix(s) ==
    << <<s[1], 0, 0, 0>>, <<0, s[2], 0, 0>>, <<0, 0, s[3], 0>>, <<0, 0, 0, 1>> >>

\* compose_transform that multiplies in the order S @ R @ T.
compose_transform_scale_last(translation, rotation, scaling) ==
    MatMul(MatMul(scaling_to_matrix(scaling), rotation_to_matrix(rotation)),
           translation_to_matrix(translation))

\* compose_transform: T @ R @ S.
compose_transform(translation, rotation, scaling) ==
    MatMul(MatMul(translation_to_matrix(translation), rotation_to_matrix(rotation)),
           scaling_to_matrix(scaling))

\* pose_to_matrix(pose, scaling).
pose_to_matrix(p, s) == compose_transform(p.translation, p.rotation, s)

------------------------------------------------------------------------------
(* Input values of the operations.                                         *)

\* A pose that translates by (1,0,0) and a pose that turns a quarter turn about Z:
\* their matrices do not commute.
PoseT == [translation |-> <<1, 0, 0>>, rotation |-> <<0, 0, 0>>]
PoseR == [translation |-> <<0, 0, 0>>, rotation |-> <<0, 0, 1>>]
Poses == {PoseT, PoseR}

\* Translation by (1,0,0) together with a quarter turn about Z.
PoseTR == [translation |-> <<1, 0, 0>>, rotation |-> <<0, 0, 1>>]

\* Unit scale (the default of Sphere and Cylinder) and a non-uniform scale.
ScalingUnit == <<1, 1, 1>>
ScalingX2 == <<2, 1, 1>>
Scalings == {ScalingUnit, ScalingX2}

------------------------------------------------------------------------------
(* State.                                                                  *)

VARIABLES
    objs,                     \* the nodes constructed so far
    pose,                     \* SceneObject.pose
    scaling,                  \* BaseSceneObject.scaling
    parent,                   \* SceneObject.parent (None or a node)
    children,                 \* SceneObject.children (a list)
    local_transform_dirty,    \* SceneObject._local_transform_dirty
    world_transform_dirty,    \* SceneObject._world_transform_dirty
    local_transform_cache,    \* SceneObject._local_transform_cache, while its flag is clear
    world_transform_cache,    \* SceneObject._world_transform_cache, while its flag is clear
    last,                     \* the last call: operation, receiver, argument, outcome
    varied,                   \* which inputs the client uses in this run
    tracks,                   \* the Animation objects: interpolation, keyframes, _sorted
    clip,                     \* AnimationClip.animations: object name -> Animation
    found,                    \* what the last _find_surrounding_keyframes returned
    player,                   \* the AnimationPlayer: loop, current_time, playing, speed
    threads,                  \* two threads on one tree: where each is in its call
    depth_warning_threshold,  \* SceneObject._depth_warning_threshold
    scene                     \* the Scene: _lights, _light_wrappers, _next_light_index

\* The fields of the scene objects, and the animation objects.
hierarchyVars == <<objs, pose, scaling, parent, children, local_transform_dirty,
                   world_transform_dirty, local_transform_cache, world_transform_cache>>
animationVars == <<tracks, clip, found>>

playbackVars == <<player, threads>>

sceneVars == <<depth_warning_threshold, scene>>

vars == <<hierarchyVars, last, varied, animationVars, playbackVars, sceneVars>>

\* The poses and scalings the client passes.  A run varies the poses (with unit
\* scale everywhere) or the scalings (with the translating pose everywhere).
\* A run on the composition order passes the translating pose and the pose that
\* translates and turns, always with the non-uniform scale.
PoseInputs ==
    CASE varied = "pose" -> Poses
      [] varied = "compose" -> {PoseT, PoseTR}
      [] OTHER -> {PoseT}
ScalingInputs ==
    CASE varied = "scaling" -> Scalings
      [] varied = "compose" -> {ScalingX2}
      [] OTHER -> {ScalingUnit}

\* The object fields as one record, so that methods are functions from heap to heap.
Heap ==
    [pose |-> pose, scaling |-> scaling, parent |-> parent, children |-> children,
     local_transform_dirty |-> local_transform_dirty,
     world_transform_dirty |-> world_transform_dirty,
     local_transform_cache |-> local_transform_cache,
     world_transform_cache |-> world_transform_cache,
     exc |-> "none", ret |-> NoMatrix]

\* The fields of the heap h become the next state.  A cache whose dirty flag is set
\* is dead: get_local_transform and get_world_transform overwrite it before they read
\* it.  The state keeps the content of a cache only while its flag is clear.
Store(h) ==
    /\ pose' = h.pose
    /\ scaling' = h.scaling
    /\ parent' = h.parent
    /\ children' = h.children
    /\ local_transform_dirty' = h.local_transform_dirty
    /\ world_transform_dirty' = h.world_transform_dirty
    /\ local_transform_cache' =
           [m \in Node |-> IF h.local_transform_dirty[m] THEN NoMatrix
                           ELSE h.local_transform_cache[m]]
    /\ world_transform_cache' =
           [m \in Node |-> IF h.world_transform_dirty[m] THEN NoMatrix
                           ELSE h.world_transform_cache[m]]

\* A call and its outcome: old is the parent that the node whose link the call is
\* about had before the call, exc is "none" or the exception raised, ret the matrix
\* returned.
Call(op, self, arg, old, exc, ret) ==
    [op |-> op, self |-> self, arg |-> arg, old |-> old, exc |-> exc, ret |-> ret]

------------------------------------------------------------------------------
(* List helpers (Python list semantics).                                   *)

\* x in lst
In(x, lst) == \E i \in 1..Len(lst) : lst[i] = x

\* lst.remove(x): removes the first occurrence.
Remove(lst, x) ==
    LET i == CHOOSE k \in 1..Len(lst) : lst[k] = x /\ \A m \in 1..(k - 1) : lst[m] # x
    IN  SubSeq(lst, 1, i - 1) \o SubSeq(lst, i + 1, Len(lst))

\* lst.count(x)
Count(lst, x) == Cardinality({i \in 1..Len(lst) : lst[i] = x})

------------------------------------------------------------------------------
(* Methods of SceneObject / BaseSceneObject as functions on heaps.  A      *)
(* method returns the heap it leaves, with exc the exception it raised     *)
(* ("none" when it returned) and ret the matrix it returned.               *)

\* The nodes met by walking the parent chain from node c (c first), as the loops of
\* _would_create_cycle and get_depth walk it; seen stops a walk that would not end.
RECURSIVE ParentChain(_, _, _)
ParentChain(par, c, seen) ==
    IF c = None \/ c \in seen THEN {}
    ELSE {c} \cup ParentChain(par, par[c], seen \cup {c})

\* The nodes that the recursion of mark_transform_dirty visits from the nodes of S:
\* S itself and everything reachable through child lists.
RECURSIVE ReachableThroughChildren(_, _)
ReachableThroughChildren(ch, S) ==
    LET T == S \cup {c \in Node : \E m \in S : In(c, ch[m])}
    IN  IF T = S THEN S ELSE ReachableThroughChildren(ch, T)

\* Both dirty flags of every node of D are set.
SetDirty(h, D) ==
    [h EXCEPT !.local_transform_dirty = [m \in Node |-> IF m \in D THEN TRUE ELSE @[m]],
              !.world_transform_dirty = [m \in Node |-> IF m \in D THEN TRUE ELSE @[m]]]

\* mark_transform_dirty without the loop over self.children.
mark_transform_dirty_self_only(h, n) == SetDirty(h, {n})

\* mark_transform_dirty whose loop sets the flags of the children without recursing.
mark_transform_dirty_one_level(h, n) ==
    SetDirty(h, {n} \cup {c \in Node : In(c, h.children[n])})

\* mark_transform_dirty that also marks the parent chain of self.
mark_transform_dirty_with_ancestors(h, n) ==
    SetDirty(h, ReachableThroughChildren(h.children, {n})
                \cup ParentChain(h.parent, h.parent[n], {}))

\* SceneObject.mark_transform_dirty: both flags of self, then of every child, recursively.
mark_transform_dirty(h, n) == SetDirty(h, ReachableThroughChildren(h.children, {n}))

\* _would_create_cycle that compares self with potential_parent only.
would_create_cycle_direct_only(h, n, potential_parent) ==
    /\ potential_parent # None
    /\ n = potential_parent

\* _would_create_cycle that always returns False.
would_create_cycle_always_false(h, n, potential_parent) == FALSE

\* SceneObject._would_create_cycle: self is met on the parent chain of potential_parent.
would_create_cycle(h, n, potential_parent) ==
    /\ potential_parent # None
    /\ n \in ParentChain(h.parent, potential_parent, {})

\* set_parent, lines 88-90: self leaves the child list of its current parent.
DetachFromParent(h, n) ==
    IF h.parent[n] # None /\ In(n, h.children[h.parent[n]])
    THEN [h EXCEPT !.children[h.parent[n]] = Remove(@, n)]
    ELSE h

\* set_parent, lines 93-98: the parent field is set and self joins the child list of
\* the new parent unless it is already in it.
AttachToParent(h, n, p) ==
    IF p # None /\ ~In(n, h.children[p])
    THEN [h EXCEPT !.parent[n] = p, !.children[p] = Append(@, n)]
    ELSE [h EXCEPT !.parent[n] = p]

\* set_parent, line 93 alone: the parent field is set, no child list changes.
SetParentField(h, n, p) == [h EXCEPT !.parent[n] = p]

\* set_parent that leaves self in the child list of its old parent.
set_parent_keeps_old_link(h, n, p) ==
    IF would_create_cycle(h, n, p) THEN [h EXCEPT !.exc = "ValueError"]
    ELSE mark_transform_dirty(AttachToParent(h, n, p), n)

\* set_parent that leaves the old parent before it checks for a cycle.
set_parent_detaches_before_check(h, n, p) ==
    IF would_create_cycle(h, n, p) THEN [DetachFromParent(h, n) EXCEPT !.exc = "ValueError"]
    ELSE mark_transform_dirty(AttachToParent(DetachFromParent(h, n), n, p), n)

\* set_parent that does not join the child list of the new parent.
set_parent_without_attach(h, n, p) ==
    IF would_create_cycle(h, n, p) THEN [h EXCEPT !.exc = "ValueError"]
    ELSE mark_transform_dirty(SetParentField(DetachFromParent(h, n), n, p), n)

\* set_parent without its final mark_transform_dirty.
set_parent_without_dirty(h, n, p) ==
    IF would_create_cycle(h, n, p) THEN [h EXCEPT !.exc = "ValueError"]
    ELSE AttachToParent(DetachFromParent(h, n), n, p)

\* SceneObject.set_parent: cycle check, detach, attach, mark the subtree dirty.
set_parent(h, n, p) ==
    IF would_create_cycle(h, n, p) THEN [h EXCEPT !.exc = "ValueError"]
    ELSE mark_transform_dirty(AttachToParent(DetachFromParent(h, n), n, p), n)

\* SceneObject.add_child: child.set_parent(self).
add_child(h, n, child) == set_parent(h, child, n)

\* remove_child that clears child.parent whether or not child is in self.children.
remove_child_unconditional(h, n, child) ==
    IF In(child, h.children[n])
    THEN mark_transform_dirty([h EXCEPT !.children[n] = Remove(@, child),
                                        !.parent[child] = None], child)
    ELSE mark_transform_dirty([h EXCEPT !.parent[child] = None], child)

\* remove_child that also takes the removed child's own children away from it.
remove_child_destroys_subtree(h, n, child) ==
    IF In(child, h.children[n])
    THEN mark_transform_dirty(
             [h EXCEPT !.children[n] = Remove(@, child),
                       !.children[child] = <<>>,
                       !.parent = [m \in Node |-> IF m = child \/ In(m, h.children[child])
                                                  THEN None ELSE @[m]]], child)
    ELSE h

\* SceneObject.remove_child: only when child is in self.children.
remove_child(h, n, child) ==
    IF In(child, h.children[n])
    THEN mark_transform_dirty([h EXCEPT !.children[n] = Remove(@, child),
                                        !.parent[child] = None], child)
    ELSE h

\* set_pose that marks only the node itself, not its subtree.
set_pose_marking_self(h, n, p) == SetDirty([h EXCEPT !.pose[n] = p], {n})

\* SceneObject.set_pose
set_pose(h, n, p) == mark_transform_dirty([h EXCEPT !.pose[n] = p], n)

\* BaseSceneObject.set_scaling
set_scaling(h, n, s) == mark_transform_dirty([h EXCEPT !.scaling[n] = s], n)

\* The recomputation branch of get_local_transform: m is the matrix just computed.
FillLocal(h, n, m) ==
    [h EXCEPT !.local_transform_cache[n] = m, !.local_transform_dirty[n] = FALSE,
              !.ret = m]

\* The pose object is a PoseQuat: it has a quaternion and no rotation vector.
IsPoseQuat(p) == "quaternion" \in DOMAIN p

\* BaseSceneObject.get_local_transform: recompute from pose and scaling when dirty.
\* pose_to_matrix calls pose.get_rotation(), which a PoseQuat does not have: the
\* call raises AttributeError before any field is written.
get_local_transform(h, n) ==
    IF h.local_transform_dirty[n]
    THEN IF IsPoseQuat(h.pose[n]) THEN [h EXCEPT !.exc = "AttributeError"]
         ELSE FillLocal(h, n, pose_to_matrix(h.pose[n], h.scaling[n]))
    ELSE [h EXCEPT !.ret = h.local_transform_cache[n]]

\* The end of the recomputation branch of get_world_transform: w is the new world
\* matrix; it is cached, the flag is cleared, the cache is returned.
FillWorld(h, n, w) ==
    [h EXCEPT !.world_transform_cache[n] = w, !.world_transform_dirty[n] = FALSE,
              !.ret = w]

\* get_world_transform, lines 176-182, on the heap hl that get_local_transform left
\* (hl.ret is the local matrix) and the heap hp that the parent's get_world_transform
\* left (hp.ret is the parent's world matrix).
ComposeWithParent(hl, hp, n) ==
    IF hp.exc # "none" THEN hp ELSE FillWorld(hp, n, MatMul(hp.ret, hl.ret))

\* SceneObject.get_world_transform: when dirty, the local transform, then the parent's
\* world transform (recursively) times the local one; the flag is cleared.  The depth
\* warning that follows the product reads the parent chain and changes no field.
\* The counters _cache_hits and _cache_misses are statistics that no method modelled
\* here reads; they are not part of the state.
RECURSIVE get_world_transform(_, _)
RECURSIVE WorldFromLocal(_, _)

\* get_world_transform after its own get_local_transform call left the heap hl.
WorldFromLocal(hl, n) ==
    IF hl.exc # "none" THEN hl
    ELSE IF hl.parent[n] = None
    THEN FillWorld(hl, n, hl.ret)
    ELSE ComposeWithParent(hl, get_world_transform(hl, hl.parent[n]), n)

get_world_transform(h, n) ==
    IF h.world_transform_dirty[n]
    THEN WorldFromLocal(get_local_transform(h, n), n)
    ELSE [h EXCEPT !.ret = h.world_transform_cache[n]]

\* SceneObject.__init__ followed by BaseSceneObject.__init__'s own assignments, for
\* the fresh node n: fields, then set_parent when a parent is given, then scaling.
FreshFields(h, n, p) ==
    [h EXCEPT !.pose[n] = p, !.parent[n] = None, !.children[n] = <<>>,
              !.local_transform_dirty[n] = TRUE, !.world_transform_dirty[n] = TRUE,
              !.local_transform_cache[n] = NoMatrix,
              !.world_transform_cache[n] = NoMatrix]

SetScalingField(h, n, s) == [h EXCEPT !.scaling[n] = s]

init_node(h, n, p, s, par) ==
    SetScalingField(IF par # None THEN set_parent(FreshFields(h, n, p), n, par)
                    ELSE FreshFields(h, n, p), n, s)

------------------------------------------------------------------------------
(* Initial state and the calls a client can make.                          *)

\* No scene object has been constructed.
NoNodes ==
    /\ objs = {}
    /\ pose = [n \in Node |-> PoseT]
    /\ scaling = [n \in Node |-> ScalingUnit]
    /\ parent = [n \in Node |-> None]
    /\ children = [n \in Node |-> <<>>]
    /\ local_transform_dirty = [n \in Node |-> TRUE]
    /\ world_transform_dirty = [n \in Node |-> TRUE]
    /\ local_transform_cache = [n \in Node |-> NoMatrix]
    /\ world_transform_cache = [n \in Node |-> NoMatrix]

\* No animation object exists.
NoAnimation ==
    /\ tracks = <<>>
    /\ clip = <<>>
    /\ found = <<>>

\* No player exists and no second thread runs.
NoPlayback ==
    /\ player = <<>>
    /\ threads = <<>>

\* SceneObject.__init__: every scene object starts with the depth threshold 15.
DefaultDepthWarningThreshold == 15

\* No Scene exists, and no scene object has had its depth threshold set.
NoScene ==
    /\ depth_warning_threshold = [n \in Node |-> DefaultDepthWarningThreshold]
    /\ scene = <<>>

Init ==
    /\ varied \in {"pose", "scaling"}
    /\ NoNodes
    /\ NoAnimation
    /\ NoPlayback
    /\ NoScene
    /\ last = Call("none", None, None, None, "none", NoMatrix)

\* The heap h that a call left becomes the state and the call is recorded.
Commit(h, op, self, arg, old) ==
    /\ Store(h)
    /\ last' = Call(op, self, arg, old, h.exc, h.ret)
    /\ UNCHANGED <<varied, animationVars, playbackVars, sceneVars>>

\* Sphere(pose=p, scaling=s, parent=par): the next unused identity is constructed.
New(p, s, par) ==
    /\ Cardinality(objs) < NumNodes
    /\ \E n \in {Cardinality(objs) + 1} :
          /\ objs' = objs \cup {n}
          /\ \E h \in {init_node(Heap, n, p, s, par)} : Commit(h, "__init__", n, par, None)

SetPose(n, p) ==
    /\ UNCHANGED objs
    /\ \E h \in {set_pose(Heap, n, p)} : Commit(h, "set_pose", n, None, None)

SetScaling(n, s) ==
    /\ UNCHANGED objs
    /\ \E h \in {set_scaling(Heap, n, s)} : Commit(h, "set_scaling", n, None, None)

SetParent(n, p) ==
    /\ UNCHANGED objs
    /\ \E h \in {set_parent(Heap, n, p)} : Commit(h, "set_parent", n, p, parent[n])

AddChild(n, child) ==
    /\ UNCHANGED objs
    /\ \E h \in {add_child(Heap, n, child)} : Commit(h, "add_child", n, child, parent[child])

RemoveChild(n, child) ==
    /\ UNCHANGED objs
    /\ \E h \in {remove_child(Heap, n, child)} :
          Commit(h, "remove_child", n, child, parent[child])

GetWorldTransform(n) ==
    /\ UNCHANGED objs
    /\ \E h \in {get_world_transform(Heap, n)} :
          Commit(h, "get_world_transform", n, None, None)

Next ==
    \/ \E p \in PoseInputs, s \in ScalingInputs, par \in objs \cup {None} : New(p, s, par)
    \/ \E n \in objs, p \in PoseInputs : SetPose(n, p)
    \/ \E n \in objs, s \in ScalingInputs : SetScaling(n, s)
    \/ \E n \in objs, p \in objs \cup {None} : SetParent(n, p)
    \/ \E n \in objs, child \in objs : AddChild(n, child)
    \/ \E n \in objs, child \in objs : RemoveChild(n, child)
    \/ \E n \in objs : GetWorldTransform(n)

Spec == Init /\ [][Next]_vars

------------------------------------------------------------------------------
(* Derived notions used by the properties.                                 *)

\* The proper ancestors of n under the parent function par.
AncestorsIn(par, n) == ParentChain(par, par[n], {})

\* The proper ancestors / descendants of n in the current state.
Ancestors(n) == AncestorsIn(parent, n)
Descendants(n) == {m \in Node : n \in Ancestors(m)}

\* The proper descendants of n under the parent function par.
DescendantsIn(par, n) == {m \in Node : n \in AncestorsIn(par, m)}

\* The local transform of n computed afresh from its current pose and scaling.
Local(n) == pose_to_matrix(pose[n], scaling[n])

\* The uncached reference for the world transform of n: the product of the local
\* transforms along the parent chain, root first.
RECURSIVE RefWorld(_)
RefWorld(n) ==
    IF parent[n] = None THEN Local(n) ELSE MatMul(RefWorld(parent[n]), Local(n))

\* A call of set_parent or add_child: the node whose parent is set and the node
\* (or None) it is set to.
IsReparent(c) == c.op \in {"set_parent", "add_child"}
ReparentNode(c) == IF c.op = "set_parent" THEN c.self ELSE c.arg
ReparentTarget(c) == IF c.op = "set_parent" THEN c.arg ELSE c.self

------------------------------------------------------------------------------
(* Properties.                                                             *)

\* C1 (cache coherence): whatever calls came before, the matrix that
\* get_world_transform(n) returns equals the uncached reference, the product of the
\* current local transforms (from the current pose and scaling) along n's current
\* parent chain from the root down to n.
C1_CacheCoherence ==
    last.op = "get_world_transform" => last.ret = RefWorld(last.self)

\* A query on a node two levels below the root, whose parent carries the rotating
\* pose, returned the reference product, which is not the node's local transform.
C1_Witness ==
    /\ last.op = "get_world_transform"
    /\ parent[last.self] # None
    /\ parent[parent[last.self]] # None
    /\ pose[parent[last.self]] = PoseR
    /\ pose[last.self] = PoseT
    /\ last.ret = RefWorld(last.self)
    /\ last.ret # Local(last.self)

\* C2 (acyclicity): in every reachable state no node is reached from itself by
\* following parent links one or more times.
C2_Acyclic == \A n \in Node : n \notin Ancestors(n)

\* A chain of three nodes on which the attempt to put the top under the bottom has
\* just been refused.
C2_Witness ==
    /\ IsReparent(last)
    /\ last.exc = "ValueError"
    /\ ReparentTarget(last) # None
    /\ ReparentTarget(last) # ReparentNode(last)
    /\ parent[ReparentTarget(last)] # ReparentNode(last)
    /\ ReparentNode(last) \in Ancestors(ReparentTarget(last))
    /\ C2_Acyclic

\* C3 (cycle rejection without mutation): set_parent(node, newParent), and
\* add_child(newParent, node), raises the cycle error whenever newParent is node or
\* node is an ancestor of newParent, and then every parent field, child list and
\* dirty flag is what it was before the call.
C3_Step ==
    (/\ IsReparent(last')
     /\ ReparentTarget(last') # None
     /\ \/ ReparentTarget(last') = ReparentNode(last')
        \/ ReparentNode(last') \in Ancestors(ReparentTarget(last')))
    => /\ last'.exc = "ValueError"
       /\ UNCHANGED <<parent, children, local_transform_dirty, world_transform_dirty>>

C3_CycleRejected == [][C3_Step]_vars

\* add_child(c, a) was refused where a is the grandparent of c, and some node's
\* cache is valid (so there were flags to preserve).
C3_Witness ==
    /\ last.op = "add_child"
    /\ last.exc = "ValueError"
    /\ parent[last.self] # None
    /\ parent[parent[last.self]] = last.arg
    /\ ~world_transform_dirty[last.self]

\* C4 (bidirectional link consistency): in every reachable state, for all nodes c and
\* p, c occurs in p's child list iff c's parent field is p, and then exactly once.
C4_LinksConsistent ==
    \A c \in Node, p \in Node :
        Count(children[p], c) = (IF parent[c] = p THEN 1 ELSE 0)

\* add_child(p, c) has just succeeded for a c that was already a child of p, and p
\* has another child as well.
C4_Witness ==
    /\ last.op = "add_child"
    /\ last.exc = "none"
    /\ last.old = last.self
    /\ parent[last.arg] = last.self
    /\ Len(children[last.self]) = 2
    /\ Count(children[last.self], last.arg) = 1

\* The node that a call marks dirty, or None when it marks none: the receiver of
\* set_pose and set_scaling, the node of a successful set_parent / add_child, the
\* child of a remove_child that was in the list (pre holds the child lists before
\* the call).
MarkedBy(c, pre) ==
    CASE c.op \in {"set_pose", "set_scaling"} -> c.self
      [] IsReparent(c) /\ c.exc = "none" -> ReparentNode(c)
      [] c.op = "remove_child" /\ In(c.arg, pre[c.self]) -> c.arg
      [] OTHER -> None

\* C5 (dirty propagation): right after set_pose(n), set_scaling(n), a successful
\* set_parent(n, p) (p a node or none), or remove_child(p, n) with n a child of p,
\* the world-dirty flag of n and of every descendant of n, at any depth, is set.
C5_Step ==
    MarkedBy(last', children) # None =>
        \A m \in {MarkedBy(last', children)} \cup DescendantsIn(parent', MarkedBy(last', children)) :
            world_transform_dirty'[m]

C5_DirtyPropagates == [][C5_Step]_vars

\* set_scaling on the top of a chain of three nodes: all three are dirty.
C5_Witness ==
    /\ last.op = "set_scaling"
    /\ \E m \in Node :
          /\ parent[m] # None
          /\ parent[parent[m]] = last.self
          /\ world_transform_dirty[m]
          /\ world_transform_dirty[parent[m]]
          /\ world_transform_dirty[last.self]

\* C6 (valid cache implies valid ancestors): in every reachable state, a node whose
\* world-dirty flag is cleared has only ancestors whose world-dirty flag is cleared.
C6_CleanAncestors ==
    \A n \in Node :
        ~world_transform_dirty[n] => \A a \in Ancestors(n) : ~world_transform_dirty[a]

\* A successful set_parent has just marked the bottom of a chain of three dirty; the
\* middle node is still clean, and so is its parent.
C6_Witness ==
    /\ last.op = "set_parent"
    /\ last.exc = "none"
    /\ world_transform_dirty[last.self]
    /\ last.arg # None
    /\ parent[last.arg] # None
    /\ ~world_transform_dirty[last.arg]
    /\ ~world_transform_dirty[parent[last.arg]]

\* The node that a mutating call applies to, or None: the receiver of set_pose,
\* set_scaling and set_parent, the child of add_child (child.set_parent) and of
\* remove_child.
MutatedBy(c) ==
    CASE c.op \in {"set_pose", "set_scaling", "set_parent"} -> c.self
      [] c.op \in {"add_child", "remove_child"} -> c.arg
      [] OTHER -> None

\* C7 (cache state machine): the world cache of a node is Dirty or Clean.  It goes
\* from Dirty to Clean only by a get_world_transform on the node or on one of its
\* descendants; that call leaves the queried node and all its ancestors Clean and
\* changes no flag of any other node, and never sets a flag.  It goes from Clean to
\* Dirty only by set_pose, set_scaling, set_parent (add_child) or remove_child
\* applied to the node or to one of its ancestors.
C7_Step ==
    /\ world_transform_dirty' \in [Node -> BOOLEAN]
    /\ \A n \in Node :
          /\ (world_transform_dirty[n] /\ ~world_transform_dirty'[n]) =>
                 /\ last'.op = "get_world_transform"
                 /\ n \in {last'.self} \cup Ancestors(last'.self)
          /\ (~world_transform_dirty[n] /\ world_transform_dirty'[n]) =>
                 /\ MutatedBy(last') # None
                 /\ MutatedBy(last') \in {n} \cup Ancestors(n)
    /\ last'.op = "get_world_transform" =>
          \A n \in Node :
              IF n \in {last'.self} \cup Ancestors(last'.self)
              THEN ~world_transform_dirty'[n] /\ ~local_transform_dirty'[n]
              ELSE /\ world_transform_dirty'[n] = world_transform_dirty[n]
                   /\ local_transform_dirty'[n] = local_transform_dirty[n]

C7_CacheStateMachine == [][C7_Step]_vars

\* A query on the bottom of a chain of three has left the whole chain Clean.
C7_Witness ==
    /\ last.op = "get_world_transform"
    /\ parent[last.self] # None
    /\ parent[parent[last.self]] # None
    /\ \A n \in {last.self} \cup Ancestors(last.self) : ~world_transform_dirty[n]

\* C8 (effect of a successful set_parent(node, newParent)): afterwards node is not
\* in the child list of its old parent (when that differs from newParent), node's
\* parent field is newParent and node is in newParent's child list; node's own child
\* list, and the parent field and child list of every node other than node, the old
\* parent and newParent, are unchanged.
C8_Effect(node, old, new) ==
    /\ (old # None /\ old # new) => ~In(node, children'[old])
    /\ parent'[node] = new
    /\ new # None => In(node, children'[new])
    /\ children'[node] = children[node]
    /\ \A m \in Node \ {node, old, new} :
          parent'[m] = parent[m] /\ children'[m] = children[m]

C8_Step ==
    (IsReparent(last') /\ last'.exc = "none") =>
        C8_Effect(ReparentNode(last'), parent[ReparentNode(last')], ReparentTarget(last'))

C8_SetParentEffect == [][C8_Step]_vars

\* set_parent has just moved a node from one parent to another one.
C8_Witness ==
    /\ last.op = "set_parent"
    /\ last.exc = "none"
    /\ last.old # None
    /\ last.arg # None
    /\ last.old # last.arg
    /\ parent[last.self] = last.arg
    /\ children[last.arg] = <<last.self>>
    /\ children[last.old] = <<>>

\* The heap of the state after the step.
HeapAfter ==
    [pose |-> pose', scaling |-> scaling', parent |-> parent', children |-> children',
     local_transform_dirty |-> local_transform_dirty',
     world_transform_dirty |-> world_transform_dirty',
     local_transform_cache |-> local_transform_cache',
     world_transform_cache |-> world_transform_cache',
     exc |-> "none", ret |-> NoMatrix]

\* set_parent(child, t) and add_child(t, child) succeed on the heap h and link child
\* under t.
Attachable(h, child, t) ==
    /\ set_parent(h, child, t).exc = "none"
    /\ set_parent(h, child, t).parent[child] = t
    /\ In(child, set_parent(h, child, t).children[t])
    /\ add_child(h, t, child) = set_parent(h, child, t)

\* C9 (orphaning, not destruction): remove_child(parent, child) with child in the
\* list sets child's parent to none and takes it out of parent's child list; the
\* child's own child list and the parent links of all its descendants stay; and the
\* detached child can then be attached by set_parent / add_child under every node
\* that is not in its own subtree.
C9_Step ==
    (last'.op = "remove_child" /\ In(last'.arg, children[last'.self])) =>
        /\ last'.exc = "none"
        /\ parent'[last'.arg] = None
        /\ ~In(last'.arg, children'[last'.self])
        /\ children'[last'.arg] = children[last'.arg]
        /\ \A d \in DescendantsIn(parent, last'.arg) : parent'[d] = parent[d]
        /\ \A t \in objs \ ({last'.arg} \cup DescendantsIn(parent', last'.arg)) :
              Attachable(HeapAfter, last'.arg, t)

C9_Orphaning == [][C9_Step]_vars

\* A child that has a child of its own has just been removed from its parent, and
\* still has its child.
C9_Witness ==
    /\ last.op = "remove_child"
    /\ last.old = last.self
    /\ parent[last.arg] = None
    /\ ~In(last.arg, children[last.self])
    /\ Len(children[last.arg]) = 1
    /\ parent[children[last.arg][1]] = last.arg

\* C10 (remove_child is total and idempotent): remove_child(parent, child) with child
\* not in parent's child list raises nothing and changes no parent field, child list
\* or dirty flag; and two consecutive remove_child(parent, child) calls leave what
\* one leaves.
C10_Step ==
    (last'.op = "remove_child" /\ ~In(last'.arg, children[last'.self])) =>
        /\ last'.exc = "none"
        /\ UNCHANGED <<parent, children, local_transform_dirty, world_transform_dirty>>

C10_Twice ==
    \A p \in objs, c \in objs :
        remove_child(remove_child(Heap, p, c), p, c) = remove_child(Heap, p, c)

C10_RemoveAbsent == [][C10_Step]_vars /\ []C10_Twice

\* remove_child(p, c) has just returned for a c that is the child of another node;
\* c is still that node's child and its cache is still valid.
C10_Witness ==
    /\ last.op = "remove_child"
    /\ last.exc = "none"
    /\ last.old # None
    /\ last.old # last.self
    /\ parent[last.arg] = last.old
    /\ In(last.arg, children[last.old])
    /\ ~world_transform_dirty[last.arg]

------------------------------------------------------------------------------
(* Numbers of the animation engine.  Python floats are modelled by exact   *)
(* rationals <<numerator, denominator>> in lowest terms with a positive    *)
(* denominator; rounding is not modelled.                                  *)

RECURSIVE GCD(_, _)
GCD(a, b) == IF b = 0 THEN Abs(a) ELSE GCD(b, a % b)

\* The rational n/d (d # 0) in lowest terms.
Rat(n, d) ==
    LET g == GCD(Abs(n), Abs(d))
        sg == IF d < 0 THEN -1 ELSE 1
    IN  <<sg * (n \div g), sg * (d \div g)>>

RInt(n) == <<n, 1>>
RZero == <<0, 1>>
ROne == <<1, 1>>
RHalf == <<1, 2>>
RAdd(a, b) == Rat(a[1] * b[2] + b[1] * a[2], a[2] * b[2])
RSub(a, b) == Rat(a[1] * b[2] - b[1] * a[2], a[2] * b[2])
RMul(a, b) == Rat(a[1] * b[1], a[2] * b[2])
RDiv(a, b) == Rat(a[1] * b[2], a[2] * b[1])
RNeg(a) == <<-a[1], a[2]>>
RLess(a, b) == a[1] * b[2] < b[1] * a[2]
RAbs(a) == <<Abs(a[1]), a[2]>>

\* array * scalar and array + array, component by component (numpy).
VScale(v, r) == [k \in DOMAIN v |-> RMul(v[k], r)]
VAdd(v, w) == [k \in DOMAIN v |-> RAdd(v[k], w[k])]

\* a * (1.0 - t) + b * t, the blend that evaluate, PoseQuat.interpolate, slerp and
\* lerp all write out.
Blend(a, b, t) == VAdd(VScale(a, RSub(ROne, t)), VScale(b, t))

\* A vector of integers as a vector of rationals.
VInt(v) == [k \in DOMAIN v |-> RInt(v[k])]

------------------------------------------------------------------------------
(* Quaternions <<w, x, y, z>> and their interpolation.                     *)

QIdentity == VInt(<<1, 0, 0, 0>>)
QMinusIdentity == VInt(<<-1, 0, 0, 0>>)

\* Quaternion.dot
QDot(p, q) ==
    RAdd(RAdd(RMul(p[1], q[1]), RMul(p[2], q[2])), RAdd(RMul(p[3], q[3]), RMul(p[4], q[4])))

\* math.sqrt of a rational whose numerator and denominator are perfect squares; the
\* squared norms that arise here are such.
ISqrt(n) == CHOOSE k \in 0..n : k * k = n
RSqrt(r) == <<ISqrt(r[1]), ISqrt(r[2])>>

\* Quaternion.normalize: the identity below the norm 1e-10, otherwise data / norm.
\* A rational of this model is below 1e-10 only when it is zero.
QNormalize(q) ==
    LET norm == RSqrt(QDot(q, q))
    IN  IF norm = RZero THEN QIdentity
        ELSE [k \in DOMAIN q |-> RDiv(q[k], norm)]

\* slerp without np.clip.
Clip01_unclamped(t) == t

\* np.clip(t, 0.0, 1.0)
Clip01(t) == IF RLess(t, RZero) THEN RZero ELSE IF RLess(ROne, t) THEN ROne ELSE t

\* The quaternion q2 that slerp and lerp go on with: negated when the dot product
\* is negative.
ShorterPath(q1, q2) == IF RLess(QDot(q1, q2), RZero) THEN VScale(q2, RInt(-1)) ELSE q2

\* lerp(q1, q2, t)
lerp(q1, q2, t) == QNormalize(Blend(q1, ShorterPath(q1, q2), Clip01(t)))

\* The weights s1 and s2 of slerp's branch for dot <= 0.9995, where
\* theta_0 = acos(dot) and theta = theta_0 * t:
\*   s1 = cos(theta) - dot * sin(theta) / sin(theta_0),  s2 = sin(theta) / sin(theta_0).
\* At t = 0, theta = 0: cos is 1 and sin is 0.  At t = 1, theta = theta_0:
\* cos(theta) is dot and the quotient of the sines is 1.  For every other t the sines
\* are not rational, and the pair is empty.
ArcWeights(dot, t) ==
    CASE t = RZero -> <<RSub(ROne, RMul(dot, RZero)), RZero>>
      [] t = ROne -> <<RSub(dot, RMul(dot, ROne)), ROne>>
      [] OTHER -> <<>>

\* The rest of slerp after the clamp and the negation: normalized linear
\* interpolation when the dot product exceeds 0.9995, otherwise the weighted sum with
\* the weights above, normalized.  Where the weights are not rational the result is
\* kept as the unevaluated triple of the arguments.
SlerpBranches(q1, q2, dot, t) ==
    IF RLess(<<1999, 2000>>, dot)
    THEN QNormalize(Blend(q1, q2, t))
    ELSE IF ArcWeights(dot, t) = <<>>
    THEN <<q1, q2, t>>
    ELSE QNormalize(VAdd(VScale(q1, ArcWeights(dot, t)[1]), VScale(q2, ArcWeights(dot, t)[2])))

\* slerp(q1, q2, t): clamp t, negate q2 and the dot product when the dot product is
\* negative, then the two branches.
slerp(q1, q2, t) ==
    SlerpBranches(q1, ShorterPath(q1, q2), RAbs(QDot(q1, q2)), Clip01(t))

------------------------------------------------------------------------------
(* Poses as the animation engine sees them: an axis-angle Pose or a        *)
(* PoseQuat.                                                               *)

MkPose(translation, rotation) ==
    [kind |-> "Pose", translation |-> translation, rotation |-> rotation]

MkPoseQuat(translation, quaternion) ==
    [kind |-> "PoseQuat", translation |-> translation, quaternion |-> quaternion]

\* Python's None where a pose is expected.
NoPose == [kind |-> "None"]

\* What a method of the animation engine leaves: the exception it raised ("none"
\* when it returned) and the value it returned.
Returned(v) == [exc |-> "none", ret |-> v]
Raised(e) == [exc |-> e, ret |-> NoPose]

\* PoseQuat.interpolate(other, t, method)
interpolate(self, other, t, method) ==
    CASE method = "slerp" ->
             Returned(MkPoseQuat(Blend(self.translation, other.translation, t),
                                 slerp(self.quaternion, other.quaternion, t)))
      [] method = "lerp" ->
             Returned(MkPoseQuat(Blend(self.translation, other.translation, t),
                                 lerp(self.quaternion, other.quaternion, t)))
      [] OTHER -> Raised("ValueError")

------------------------------------------------------------------------------
(* Keyframes and tracks (class Animation).  Times are integers: a time is  *)
(* counted in units of a third of 1e-10 s, so that bracket durations below *)
(* and above the threshold of _find_surrounding_keyframes both occur.      *)

\* The 1e-10 of "if duration < 1e-10", in time units.
DurationEpsilon == 3

\* Keyframe(time, pose) after a __post_init__ that did not raise.
MkKeyframe(time, p) == [time |-> time, pose |-> p]

\* Animation.__init__: no keyframes, _sorted = True.
NewTrack(interpolation) ==
    [interpolation |-> interpolation, keyframes |-> <<>>, sorted |-> TRUE]

\* list.sort(key=lambda k: k.time): a stable sort.  InsertByTime puts k behind
\* every keyframe of the sorted list lst whose time is not greater.
RECURSIVE InsertByTime(_, _)
InsertByTime(lst, k) ==
    IF lst = <<>> THEN <<k>>
    ELSE IF lst[Len(lst)].time <= k.time THEN Append(lst, k)
    ELSE Append(InsertByTime(SubSeq(lst, 1, Len(lst) - 1), k), lst[Len(lst)])

RECURSIVE SortByTime(_)
SortByTime(lst) ==
    IF lst = <<>> THEN <<>>
    ELSE InsertByTime(SortByTime(SubSeq(lst, 1, Len(lst) - 1)), lst[Len(lst)])

\* add_keyframe that does not reset _sorted.
add_keyframe_keeps_sorted_flag(tr, time, p) ==
    IF time < 0 THEN [track |-> tr, out |-> Raised("ValueError")]
    ELSE [track |-> [tr EXCEPT !.keyframes = Append(@, MkKeyframe(time, p))],
          out |-> Returned(NoPose)]

\* An add_keyframe that appends the keyframe before its time is validated.
add_keyframe_validating_late(tr, time, p) ==
    [track |-> [tr EXCEPT !.keyframes = Append(@, MkKeyframe(time, p)),
                          !.sorted = FALSE],
     out |-> IF time < 0 THEN Raised("ValueError") ELSE Returned(NoPose)]

\* Animation.add_keyframe: Keyframe.__post_init__ raises for a negative time before
\* anything is appended.  The result is the track and the outcome.
add_keyframe(tr, time, p) ==
    IF time < 0 THEN [track |-> tr, out |-> Raised("ValueError")]
    ELSE [track |-> [tr EXCEPT !.keyframes = Append(@, MkKeyframe(time, p)),
                               !.sorted = FALSE],
          out |-> Returned(NoPose)]

\* Animation._ensure_sorted
ensure_sorted(tr) ==
    IF ~tr.sorted THEN [tr EXCEPT !.keyframes = SortByTime(@), !.sorted = TRUE]
    ELSE tr

\* Animation.clear
clear(tr) == [tr EXCEPT !.keyframes = <<>>, !.sorted = TRUE]

\* get_duration, line 96, on the track ts that _ensure_sorted left.
LastTime(ts) == [track |-> ts, time |-> ts.keyframes[Len(ts.keyframes)].time]

\* Animation.get_duration: the track it leaves and the time it returns.
get_duration(tr) ==
    IF tr.keyframes = <<>> THEN [track |-> tr, time |-> 0]
    ELSE LastTime(ensure_sorted(tr))

\* What _find_surrounding_keyframes returns: the positions of kf_before and kf_after
\* in the sorted list (0 for None; equal positions are the same Keyframe object) and
\* normalized_t.
Found(before, after, t) == [before |-> before, after |-> after, t |-> t]

\* The normalized time without the test of the duration against 1e-10.
NormalizedT_unguarded(kf_before, kf_after, time) ==
    Rat(time - kf_before.time, kf_after.time - kf_before.time)

\* The normalized time of _find_surrounding_keyframes, lines 133-137.
NormalizedT(kf_before, kf_after, time) ==
    IF kf_after.time - kf_before.time < DurationEpsilon THEN RZero
    ELSE Rat(time - kf_before.time, kf_after.time - kf_before.time)

\* The loop of _find_surrounding_keyframes over the sorted list kfs: the first i with
\* kfs[i].time <= time <= kfs[i+1].time, and the fall-through behind the loop.
Scan(kfs, time) ==
    LET hits == {i \in 1..(Len(kfs) - 1) : kfs[i].time <= time /\ time <= kfs[i + 1].time}
    IN  IF hits = {} THEN Found(Len(kfs), Len(kfs), ROne)
        ELSE LET i == CHOOSE k \in hits : \A m \in hits : k <= m
             IN  Found(i, i + 1, NormalizedT(kfs[i], kfs[i + 1], time))

\* _find_surrounding_keyframes that carries the outermost brackets on beyond the
\* first and the last keyframe instead of clamping.
find_surrounding_keyframes_extrapolating(kfs, time) ==
    IF kfs = <<>> THEN Found(0, 0, RZero)
    ELSE IF Len(kfs) = 1 THEN Found(1, 1, RZero)
    ELSE IF time <= kfs[1].time
         THEN Found(1, 2, NormalizedT(kfs[1], kfs[2], time))
    ELSE IF time >= kfs[Len(kfs)].time
         THEN Found(Len(kfs) - 1, Len(kfs),
                    NormalizedT(kfs[Len(kfs) - 1], kfs[Len(kfs)], time))
    ELSE Scan(kfs, time)

\* Animation._find_surrounding_keyframes on the keyframes of a track that
\* _ensure_sorted has left.
find_surrounding_keyframes(kfs, time) ==
    IF kfs = <<>> THEN Found(0, 0, RZero)
    ELSE IF time <= kfs[1].time THEN Found(1, 1, RZero)
    ELSE IF time >= kfs[Len(kfs)].time THEN Found(Len(kfs), Len(kfs), ROne)
    ELSE Scan(kfs, time)

\* An easing that squares its argument.
ease_in_out_quadratic(t) == RMul(t, t)

\* Animation._ease_in_out: t * t * (3.0 - 2.0 * t)
ease_in_out(t) == RMul(RMul(t, t), RSub(RInt(3), RMul(RInt(2), t)))

\* A blend that answers with the earlier pose when the two kinds differ.
InterpolatePoses_lenient(pose_before, pose_after, t) ==
    IF pose_before.kind # pose_after.kind THEN Returned(pose_before)
    ELSE IF pose_before.kind = "PoseQuat"
         THEN interpolate(pose_before, pose_after, t, "slerp")
         ELSE Returned(MkPose(Blend(pose_before.translation, pose_after.translation, t),
                              Blend(pose_before.rotation, pose_after.rotation, t)))

\* evaluate, lines 189-212: the blend of two poses with weight t.
InterpolatePoses(pose_before, pose_after, t) ==
    IF pose_before.kind # pose_after.kind THEN Raised("TypeError")
    ELSE IF pose_before.kind = "PoseQuat"
         THEN interpolate(pose_before, pose_after, t, "slerp")
         ELSE Returned(MkPose(Blend(pose_before.translation, pose_after.translation, t),
                              Blend(pose_before.rotation, pose_after.rotation, t)))

\* evaluate with a step that switches to the later pose only after the middle of the
\* bracket.
EvaluateFound_late_step(interpolation, kfs, f) ==
    IF f.before = f.after THEN Returned(kfs[f.before].pose)
    ELSE IF interpolation = "step"
         THEN Returned(IF RLess(RHalf, f.t) THEN kfs[f.after].pose ELSE kfs[f.before].pose)
         ELSE InterpolatePoses(kfs[f.before].pose, kfs[f.after].pose,
                               IF interpolation = "smooth" THEN ease_in_out(f.t) ELSE f.t)

\* evaluate, lines 176-212, for the keyframes kf_before and kf_after at the positions
\* f.before and f.after.
EvaluateFound(interpolation, kfs, f) ==
    IF f.before = f.after THEN Returned(kfs[f.before].pose)
    ELSE IF interpolation = "step"
         THEN Returned(IF RLess(f.t, RHalf) THEN kfs[f.before].pose ELSE kfs[f.after].pose)
         ELSE InterpolatePoses(kfs[f.before].pose, kfs[f.after].pose,
                               IF interpolation = "smooth" THEN ease_in_out(f.t) ELSE f.t)

\* evaluate from line 171 on, on the track ts that _ensure_sorted left, once
\* _find_surrounding_keyframes has returned f.
EvaluateWith(ts, f) ==
    [track |-> ts, found |-> f, out |-> EvaluateFound(ts.interpolation, ts.keyframes, f)]

EvaluateSorted(ts, time) == EvaluateWith(ts, find_surrounding_keyframes(ts.keyframes, time))

\* Animation.evaluate: the track it leaves (sorted), what the search found, and the
\* outcome.
evaluate(tr, time) ==
    IF tr.keyframes = <<>>
    THEN [track |-> tr, found |-> <<>>, out |-> Returned(NoPose)]
    ELSE EvaluateSorted(ensure_sorted(tr), time)

------------------------------------------------------------------------------
(* One track and the calls a client makes on it.                           *)

\* The largest number of keyframes a track is given.
MaxKeyframes == 3

\* Keyframe times the client passes (one of them negative) and times it queries.
KeyTimes == {-1, 0, 2, 5, 8}
QueryTimes == -1..9

\* Interpolation names a track is constructed with; "cubic" is not an
\* InterpolationMode.
Policies == {"step", "linear", "smooth", "cubic"}

\* Poses the client passes: two axis-angle poses and two quaternion poses.
AxisA == MkPose(VInt(<<0, 0, 0>>), VInt(<<0, 0, 0>>))
AxisB == MkPose(VInt(<<4, 0, 0>>), VInt(<<0, 0, 2>>))
QuatA == MkPoseQuat(VInt(<<0, 0, 0>>), QIdentity)
QuatB == MkPoseQuat(VInt(<<4, 2, 0>>), QMinusIdentity)

\* A run uses axis-angle poses, quaternion poses, or one of each.
PoseFamilies == {"axis", "quat", "mixed"}
KeyframePoses ==
    CASE varied = "axis" -> {AxisA, AxisB}
      [] varied = "quat" -> {QuatA, QuatB}
      [] OTHER -> {AxisB, QuatA}

\* Animation('test', interpolation=...) has been constructed; no clip.
InitTrack ==
    /\ varied \in PoseFamilies
    /\ NoNodes
    /\ \E interpolation \in Policies : tracks = <<NewTrack(interpolation)>>
    /\ clip = <<>>
    /\ found = <<>>
    /\ NoPlayback
    /\ NoScene
    /\ last = Call("__init__", 1, None, None, "none", NoPose)

\* The call op on track a with argument arg left the track tr, the search result f
\* and the outcome out.
CommitTrack(op, a, arg, tr, f, out) ==
    /\ tracks' = [tracks EXCEPT ![a] = tr]
    /\ found' = f
    /\ last' = Call(op, a, arg, None, out.exc, out.ret)
    /\ UNCHANGED <<hierarchyVars, varied, clip, playbackVars, sceneVars>>

AddKeyframe(a, time, p) ==
    /\ time < 0 \/ Len(tracks[a].keyframes) < MaxKeyframes
    /\ \E r \in {add_keyframe(tracks[a], time, p)} :
          CommitTrack("add_keyframe", a, time, r.track, <<>>, r.out)

Evaluate(a, time) ==
    \E r \in {evaluate(tracks[a], time)} :
        CommitTrack("evaluate", a, time, r.track, r.found, r.out)

GetDuration(a) ==
    \E r \in {get_duration(tracks[a])} :
        CommitTrack("get_duration", a, None, r.track, <<>>, Returned(r.time))

Clear(a) == CommitTrack("clear", a, None, clear(tracks[a]), <<>>, Returned(NoPose))

NextTrack ==
    \/ \E time \in KeyTimes, p \in KeyframePoses : AddKeyframe(1, time, p)
    \/ \E time \in QueryTimes : Evaluate(1, time)
    \/ GetDuration(1)
    \/ Clear(1)

SpecTrack == InitTrack /\ [][NextTrack]_vars

------------------------------------------------------------------------------
(* Properties of a track.                                                  *)

\* The keyframes of a list as a set of positions, their times, the earliest and the
\* latest time, and the poses stored at a time.
TimesOf(kfs) == {kfs[i].time : i \in 1..Len(kfs)}
EarliestTime(kfs) == CHOOSE t \in TimesOf(kfs) : \A u \in TimesOf(kfs) : t <= u
LatestTime(kfs) == CHOOSE t \in TimesOf(kfs) : \A u \in TimesOf(kfs) : u <= t
PosesAt(kfs, time) == {kfs[i].pose : i \in {k \in 1..Len(kfs) : kfs[k].time = time}}
DistinctTimes(kfs) == Cardinality(TimesOf(kfs)) = Len(kfs)

\* C11 (animation clamp): on a track with at least one keyframe, under every
\* interpolation name, evaluate(t) returns the stored pose of the earliest keyframe
\* when t is at or before its time and the stored pose of the latest keyframe when t
\* is at or after its time; nothing is blended or extrapolated.  (Among keyframes
\* that share the boundary time it is the pose of one of them.)
C11_Clamp ==
    (last.op = "evaluate" /\ tracks[last.self].keyframes # <<>>) =>
        /\ last.arg <= EarliestTime(tracks[last.self].keyframes) =>
               /\ last.exc = "none"
               /\ last.ret \in PosesAt(tracks[last.self].keyframes,
                                       EarliestTime(tracks[last.self].keyframes))
        /\ last.arg >= LatestTime(tracks[last.self].keyframes) =>
               /\ last.exc = "none"
               /\ last.ret \in PosesAt(tracks[last.self].keyframes,
                                       LatestTime(tracks[last.self].keyframes))

\* A smooth track of three keyframes with distinct times, asked behind its last
\* keyframe, returned the pose of that keyframe, which is not the pose of the first.
C11_Witness ==
    /\ last.op = "evaluate"
    /\ tracks[1].interpolation = "smooth"
    /\ Len(tracks[1].keyframes) = 3
    /\ DistinctTimes(tracks[1].keyframes)
    /\ last.arg > LatestTime(tracks[1].keyframes)
    /\ last.ret = tracks[1].keyframes[3].pose
    /\ last.ret # tracks[1].keyframes[1].pose

\* The keyframes of the set S, which have pairwise distinct times, in ascending order
\* of time.
RECURSIVE Ascending(_)
Ascending(S) ==
    IF S = {} THEN <<>>
    ELSE LET k == CHOOSE x \in S : \A y \in S : x.time <= y.time
         IN  <<k>> \o Ascending(S \ {k})

\* A track with the interpolation and the keyframes of tr whose keyframes were added
\* with add_keyframe in ascending order of time.
AddedInOrder(tr) ==
    [tr EXCEPT !.keyframes = Ascending({tr.keyframes[i] : i \in 1..Len(tr.keyframes)}),
               !.sorted = FALSE]

\* C12 (unsorted insertion): when the keyframes of a track have pairwise distinct
\* times, evaluate(t) for every t and get_duration() give what they give on a track
\* that received the same keyframes in ascending order of time, whatever the order of
\* the add_keyframe calls and whatever queries came between them; and the results
\* that the last evaluate / get_duration call returned are those.
C12_OrderIndependent ==
    DistinctTimes(tracks[1].keyframes) =>
        /\ \A t \in QueryTimes :
               evaluate(tracks[1], t).out = evaluate(AddedInOrder(tracks[1]), t).out
        /\ get_duration(tracks[1]).time = get_duration(AddedInOrder(tracks[1])).time
        /\ last.op = "evaluate" =>
               [exc |-> last.exc, ret |-> last.ret]
                   = evaluate(AddedInOrder(tracks[1]), last.arg).out
        /\ last.op = "get_duration" =>
               last.ret = get_duration(AddedInOrder(tracks[1])).time

\* Keyframes at times 2, 6 were added, then one at time 0: the list is out of order
\* and waits for its lazy sort.
C12_Witness ==
    /\ last.op = "add_keyframe"
    /\ last.exc = "none"
    /\ Len(tracks[1].keyframes) = 3
    /\ ~tracks[1].sorted
    /\ tracks[1].keyframes[3].time < tracks[1].keyframes[1].time
    /\ tracks[1].keyframes[1].time < tracks[1].keyframes[2].time
    /\ tracks[1].keyframes # AddedInOrder(tracks[1]).keyframes
    /\ tracks[1].interpolation = "linear"

\* The last call was an evaluate at a time strictly between the earliest and the
\* latest keyframe time of its track.
EvaluatedInside ==
    /\ last.op = "evaluate"
    /\ tracks[last.self].keyframes # <<>>
    /\ EarliestTime(tracks[last.self].keyframes) < last.arg
    /\ last.arg < LatestTime(tracks[last.self].keyframes)

\* The times of the pair that the last search returned, and the length of the
\* bracket.
BeforeTime == tracks[last.self].keyframes[found.before].time
AfterTime == tracks[last.self].keyframes[found.after].time
BracketDuration == AfterTime - BeforeTime

\* The keyframe list of the track of the last call is in time order.
InTimeOrder ==
    \A i \in 1..(Len(tracks[last.self].keyframes) - 1) :
        tracks[last.self].keyframes[i].time <= tracks[last.self].keyframes[i + 1].time

\* The pair of the last search is consecutive in time order and encloses the time
\* asked for.
EnclosingPair ==
    /\ InTimeOrder
    /\ found.before \in 1..(Len(tracks[last.self].keyframes) - 1)
    /\ found.after = found.before + 1
    /\ BeforeTime <= last.arg
    /\ last.arg <= AfterTime

\* C13 as stated (bracket selection): for t strictly between the earliest and the
\* latest keyframe time, evaluate uses a pair of keyframes consecutive in time order
\* with before.time <= t <= after.time and the weight
\* u = (t - before.time) / (after.time - before.time), which lies in [0, 1]; the
\* bracket duration it divides by is never zero.
C13_AsStated ==
    EvaluatedInside =>
        /\ EnclosingPair
        /\ BracketDuration # 0
        /\ found.t = Rat(last.arg - BeforeTime, BracketDuration)
        /\ ~RLess(found.t, RZero) /\ ~RLess(ROne, found.t)

\* C13 as amended: the same, but the weight is the quotient only when the bracket
\* duration is at least 1e-10; for a shorter bracket the weight is 0.
C13_BracketSelection ==
    EvaluatedInside =>
        /\ EnclosingPair
        /\ BracketDuration # 0
        /\ found.t = (IF BracketDuration < DurationEpsilon THEN RZero
                      ELSE Rat(last.arg - BeforeTime, BracketDuration))
        /\ ~RLess(found.t, RZero) /\ ~RLess(ROne, found.t)

\* An evaluate inside the second bracket of three keyframes, a third of the way
\* through it; the first bracket is shorter than the threshold.
C13_Witness ==
    /\ EvaluatedInside
    /\ Len(tracks[1].keyframes) = 3
    /\ found.before = 2
    /\ found.after = 3
    /\ found.t = <<1, 3>>
    /\ tracks[1].keyframes[2].time - tracks[1].keyframes[1].time < DurationEpsilon

\* The poses of the pair that the last search returned.
BeforePose == tracks[last.self].keyframes[found.before].pose
AfterPose == tracks[last.self].keyframes[found.after].pose

\* The last call was an evaluate strictly inside a bracket of two keyframes.
EvaluatedInBracket == EvaluatedInside /\ found.before # found.after

\* C14 (step policy): an evaluate strictly inside a bracket of a track with step
\* interpolation returns the pose of the earlier keyframe unchanged when the weight
\* is below 1/2 and the pose of the later keyframe unchanged when the weight is 1/2
\* or more; it never raises and never returns any other pose.
C14_Step ==
    (EvaluatedInBracket /\ tracks[last.self].interpolation = "step") =>
        /\ last.exc = "none"
        /\ RLess(found.t, RHalf) => last.ret = BeforePose
        /\ ~RLess(found.t, RHalf) => last.ret = AfterPose
        /\ last.ret \in {BeforePose, AfterPose}

\* A step track evaluated exactly half way through a bracket whose two poses differ.
C14_Witness ==
    /\ EvaluatedInBracket
    /\ tracks[1].interpolation = "step"
    /\ found.t = RHalf
    /\ BeforePose # AfterPose
    /\ last.ret = AfterPose

\* (1-u)*before + u*after for one component, written as before + u*(after - before).
Mix(before, after, u) == RAdd(before, RMul(u, RSub(after, before)))

\* The same for a vector of three components.
MixVector(before, after, u) ==
    <<Mix(before[1], after[1], u), Mix(before[2], after[2], u), Mix(before[3], after[3], u)>>

\* 3u^2 - 2u^3.
Smoothstep(u) ==
    RSub(RMul(RInt(3), RMul(u, u)), RMul(RInt(2), RMul(u, RMul(u, u))))

\* The weight that the policy of the track of the last call blends with.
BlendWeight ==
    IF tracks[last.self].interpolation = "smooth" THEN Smoothstep(found.t) ELSE found.t

\* The last call was an evaluate strictly inside a bracket of two keyframes of the
\* same kind, on a track with the linear or the smooth policy.
Blended ==
    /\ EvaluatedInBracket
    /\ tracks[last.self].interpolation \in {"linear", "smooth"}
    /\ BeforePose.kind = AfterPose.kind

\* C15 (linear and smooth blending): an evaluate inside a bracket with weight u
\* returns the translation (1-u)*before + u*after under the linear policy, and for
\* axis-angle poses the rotation vector given by the same formula; under the smooth
\* policy u is replaced by 3u^2 - 2u^3. Both policies return the values of the
\* earlier keyframe at u = 0, of the later keyframe at u = 1, and the midpoint at
\* u = 1/2.
C15_Blending ==
    Blended =>
        /\ last.exc = "none"
        /\ last.ret.kind = BeforePose.kind
        /\ last.ret.translation
             = MixVector(BeforePose.translation, AfterPose.translation, BlendWeight)
        /\ BeforePose.kind = "Pose" =>
             last.ret.rotation = MixVector(BeforePose.rotation, AfterPose.rotation, BlendWeight)
        /\ found.t = RZero =>
             /\ last.ret.translation = BeforePose.translation
             /\ BeforePose.kind = "Pose" => last.ret.rotation = BeforePose.rotation
        /\ found.t = ROne =>
             /\ last.ret.translation = AfterPose.translation
             /\ BeforePose.kind = "Pose" => last.ret.rotation = AfterPose.rotation
        /\ found.t = RHalf =>
             /\ last.ret.translation
                  = MixVector(BeforePose.translation, AfterPose.translation, RHalf)
             /\ BeforePose.kind = "Pose" =>
                  last.ret.rotation = MixVector(BeforePose.rotation, AfterPose.rotation, RHalf)

\* A smooth track of axis-angle poses evaluated a third of the way through a
\* bracket: the eased weight is 7/27 and the result is neither of the two poses.
C15_Witness ==
    /\ Blended
    /\ tracks[1].interpolation = "smooth"
    /\ BeforePose.kind = "Pose"
    /\ found.t = <<1, 3>>
    /\ BlendWeight = <<7, 27>>
    /\ last.ret.rotation # BeforePose.rotation
    /\ last.ret.rotation # AfterPose.rotation

\* The last call was an evaluate strictly inside a bracket whose two keyframes hold
\* poses of different kinds.
EvaluatedInMixedBracket == EvaluatedInBracket /\ BeforePose.kind # AfterPose.kind

\* C16 as stated (mixed pose kinds): under every policy (step, linear, smooth) an
\* evaluate strictly inside a bracket whose keyframes hold poses of different kinds
\* fails with a type error instead of returning a pose.
C16_AsStated ==
    (EvaluatedInMixedBracket /\ tracks[last.self].interpolation \in {"step", "linear", "smooth"})
        => (last.exc = "TypeError" /\ last.ret = NoPose)

\* C16 as amended: under the linear and the smooth policy such an evaluate fails with
\* a type error instead of returning a pose; under the step policy, which blends
\* nothing, it returns the pose of one of the two keyframes.
C16_MixedKinds ==
    EvaluatedInMixedBracket =>
        /\ tracks[last.self].interpolation \in {"linear", "smooth"}
             => (last.exc = "TypeError" /\ last.ret = NoPose)
        /\ tracks[last.self].interpolation = "step"
             => (last.exc = "none" /\ last.ret \in {BeforePose, AfterPose})

\* A smooth track holding an axis-angle pose and then a quaternion pose, evaluated
\* between the two.
C16_Witness ==
    /\ EvaluatedInMixedBracket
    /\ tracks[1].interpolation = "smooth"
    /\ BeforePose.kind = "Pose"
    /\ AfterPose.kind = "PoseQuat"
    /\ last.exc = "TypeError"

\* Every keyframe stored in a track has a time of at least 0.
StoredTimesNonNegative ==
    \A a \in DOMAIN tracks : \A i \in DOMAIN tracks[a].keyframes :
        tracks[a].keyframes[i].time >= 0

\* A step that is an add_keyframe with a negative time fails with an error and leaves
\* every track, its keyframes and its keyframe count as they were.
NegativeTimeRejected ==
    (last'.op = "add_keyframe" /\ last'.arg < 0) =>
        /\ last'.exc = "ValueError"
        /\ tracks' = tracks
        /\ Len(tracks'[last'.self].keyframes) = Len(tracks[last'.self].keyframes)

\* C17 (negative keyframe time): add_keyframe with a time below 0 fails with an
\* error and leaves the keyframes and the keyframe count of the track unchanged, so
\* after any sequence of add_keyframe and clear every stored keyframe has a time of
\* at least 0.
C17_NegativeTime == [][NegativeTimeRejected]_vars /\ []StoredTimesNonNegative

\* A negative time was just refused by a track that holds two keyframes.
C17_Witness ==
    /\ last.op = "add_keyframe"
    /\ last.arg < 0
    /\ last.exc = "ValueError"
    /\ Len(tracks[1].keyframes) = 2

\* Method names a caller may hand to PoseQuat.interpolate, and the weights it may
\* pass.
MethodNames == {"slerp", "lerp", "nlerp", "cubic"}
Weights == {RZero, <<1, 3>>, RHalf, ROne}

\* PoseQuat.interpolate refuses every method name other than slerp and lerp.
InterpolateRefusesUnknownMethods ==
    \A method \in MethodNames \ {"slerp", "lerp"} : \A t \in Weights :
        \A self \in {QuatA, QuatB} : \A other \in {QuatA, QuatB} :
            /\ interpolate(self, other, t, method).exc = "ValueError"
            /\ interpolate(self, other, t, method).ret = NoPose

\* C18 (unsupported interpolation names): an interpolation carried out under a name
\* outside the supported set yields an error rather than a pose, both for
\* PoseQuat.interpolate with a method other than slerp or lerp and for an evaluate
\* inside a bracket of a track constructed with a policy name other than step,
\* linear or smooth.
C18_UnsupportedNames ==
    /\ InterpolateRefusesUnknownMethods
    /\ (EvaluatedInBracket /\ tracks[last.self].interpolation \notin {"step", "linear", "smooth"})
          => (last.exc # "none" /\ last.ret = NoPose)

\* --------------------------------------------------------------------------
\* AnimationClip: a dict from object names to tracks.  A dict keeps its keys in the
\* order of their first insertion, so `clip` is a sequence of entries; a track is
\* named by its position in `tracks`, and one track may sit under several names.
\* --------------------------------------------------------------------------

Entry(object_name, animation) == [object_name |-> object_name, animation |-> animation]

\* The names the clip has a track for.
get_object_names(cl) == {cl[i].object_name : i \in DOMAIN cl}

\* The position of a name among the entries (the name is there).
PositionOf(cl, object_name) == CHOOSE i \in DOMAIN cl : cl[i].object_name = object_name

\* AnimationClip.get_animation: the track under a name (the name is there).
get_animation(cl, object_name) == cl[PositionOf(cl, object_name)].animation

\* AnimationClip.add_animation: self.animations[object_name] = animation.
add_animation(cl, object_name, animation) ==
    IF object_name \in get_object_names(cl)
    THEN [cl EXCEPT ![PositionOf(cl, object_name)].animation = animation]
    ELSE Append(cl, Entry(object_name, animation))

\* AnimationClip.remove_animation
remove_animation(cl, object_name) ==
    SelectSeq(cl, LAMBDA e : e.object_name # object_name)

\* AnimationClip.clear
clip_clear(cl) == <<>>

\* The mapping `result` with one more key.
WithPose(result, object_name, p) ==
    [n \in (DOMAIN result) \cup {object_name} |-> IF n = object_name THEN p ELSE result[n]]

\* A clip evaluation that keeps the empty result of a track without keyframes.
RECURSIVE EvaluateEntries_keeping_empty(_, _, _, _, _)
EvaluateEntries_keeping_empty(cl, trs, time, i, result) ==
    IF i > Len(cl) THEN [tracks |-> trs, out |-> Returned(result)]
    ELSE LET r == evaluate(trs[cl[i].animation], time)
             moved == [trs EXCEPT ![cl[i].animation] = r.track]
         IN  IF r.out.exc # "none" THEN [tracks |-> moved, out |-> r.out]
             ELSE EvaluateEntries_keeping_empty(cl, moved, time, i + 1,
                      WithPose(result, cl[i].object_name, r.out.ret))

\* The loop of AnimationClip.evaluate from entry i on: every track is evaluated in
\* turn (which sorts it), a result other than None is stored under the name, and an
\* exception of a track ends the call.
RECURSIVE EvaluateEntries(_, _, _, _, _)
EvaluateEntries(cl, trs, time, i, result) ==
    IF i > Len(cl) THEN [tracks |-> trs, out |-> Returned(result)]
    ELSE LET r == evaluate(trs[cl[i].animation], time)
             moved == [trs EXCEPT ![cl[i].animation] = r.track]
         IN  IF r.out.exc # "none" THEN [tracks |-> moved, out |-> r.out]
             ELSE EvaluateEntries(cl, moved, time, i + 1,
                      IF r.out.ret = NoPose THEN result
                      ELSE WithPose(result, cl[i].object_name, r.out.ret))

\* AnimationClip.evaluate: the tracks it leaves and the outcome.
clip_evaluate(cl, trs, time) == EvaluateEntries(cl, trs, time, 1, <<>>)

\* A maximum that forgets the longest track seen so far.
RECURSIVE MaxDuration_of_last(_, _, _, _)
MaxDuration_of_last(cl, trs, i, longest) ==
    IF i > Len(cl) THEN [tracks |-> trs, time |-> longest]
    ELSE LET r == get_duration(trs[cl[i].animation])
         IN  MaxDuration_of_last(cl, [trs EXCEPT ![cl[i].animation] = r.track], i + 1, r.time)

\* max(anim.get_duration() for anim in self.animations.values()) from entry i on:
\* get_duration sorts each track it visits.
RECURSIVE MaxDuration(_, _, _, _)
MaxDuration(cl, trs, i, longest) ==
    IF i > Len(cl) THEN [tracks |-> trs, time |-> longest]
    ELSE LET r == get_duration(trs[cl[i].animation])
         IN  MaxDuration(cl, [trs EXCEPT ![cl[i].animation] = r.track], i + 1,
                         IF r.time > longest THEN r.time ELSE longest)

\* AnimationClip.get_duration: the tracks it leaves and the duration.
clip_get_duration(cl, trs) ==
    IF cl = <<>> THEN [tracks |-> trs, time |-> 0]
    ELSE LET first == get_duration(trs[cl[1].animation])
         IN  MaxDuration(cl, [trs EXCEPT ![cl[1].animation] = first.track], 2, first.time)

\* --------------------------------------------------------------------------
\* A client of one clip and two tracks.
\* --------------------------------------------------------------------------

\* The largest number of keyframes a track of the clip is given.
MaxClipKeyframes == 2

\* The two tracks, the names they are added under, and the times the client uses.
ClipTracks == {1, 2}
ObjectNames == {"cube", "lamp"}
ClipKeyTimes == {2, 5}
ClipQueryTimes == {0, 3, 6}

InitClip ==
    /\ varied = "axis"
    /\ NoNodes
    /\ tracks = <<NewTrack("linear"), NewTrack("step")>>
    /\ clip = <<>>
    /\ found = <<>>
    /\ NoPlayback
    /\ NoScene
    /\ last = Call("__init__", None, None, None, "none", NoPose)

CommitClip(op, arg, cl, trs, out) ==
    /\ clip' = cl
    /\ tracks' = trs
    /\ found' = <<>>
    /\ last' = Call(op, None, arg, None, out.exc, out.ret)
    /\ UNCHANGED <<hierarchyVars, varied, playbackVars, sceneVars>>

AddAnimation(object_name, a) ==
    CommitClip("add_animation", object_name, add_animation(clip, object_name, a), tracks,
               Returned(NoPose))

RemoveAnimation(object_name) ==
    CommitClip("remove_animation", object_name, remove_animation(clip, object_name), tracks,
               Returned(NoPose))

ClipClear == CommitClip("clip.clear", None, clip_clear(clip), tracks, Returned(NoPose))

ClipEvaluate(time) ==
    \E r \in {clip_evaluate(clip, tracks, time)} :
        CommitClip("clip.evaluate", time, clip, r.tracks, r.out)

ClipGetDuration ==
    \E r \in {clip_get_duration(clip, tracks)} :
        CommitClip("clip.get_duration", None, clip, r.tracks, Returned(r.time))

ClipAddKeyframe(a, time, p) ==
    /\ Len(tracks[a].keyframes) < MaxClipKeyframes
    /\ AddKeyframe(a, time, p)

NextClip ==
    \/ \E object_name \in ObjectNames, a \in ClipTracks : AddAnimation(object_name, a)
    \/ \E object_name \in ObjectNames : RemoveAnimation(object_name)
    \/ ClipClear
    \/ \E time \in ClipQueryTimes : ClipEvaluate(time)
    \/ ClipGetDuration
    \/ \E a \in ClipTracks, time \in ClipKeyTimes, p \in KeyframePoses : ClipAddKeyframe(a, time, p)
    \/ \E a \in ClipTracks : Clear(a)

SpecClip == InitClip /\ [][NextClip]_vars

\* --------------------------------------------------------------------------
\* Properties of the clip
\* --------------------------------------------------------------------------

\* The track the clip holds under a name.
TrackOf(object_name) == tracks[get_animation(clip, object_name)]

\* The names of the clip whose track holds at least one keyframe.
FilledNames == {n \in get_object_names(clip) : TrackOf(n).keyframes # <<>>}

\* C19 (clip evaluation): Clip.evaluate(t) returns a mapping whose keys are exactly
\* the names of the tracks of the clip that hold at least one keyframe, each mapped
\* to what that track's evaluate(t) returns; a track without keyframes evaluates to
\* the empty result for every t and has no key.
C19_ClipEvaluate ==
    /\ last.op = "clip.evaluate" =>
          /\ last.exc = "none"
          /\ DOMAIN last.ret = FilledNames
          /\ \A n \in FilledNames :
                /\ evaluate(TrackOf(n), last.arg).out.exc = "none"
                /\ last.ret[n] = evaluate(TrackOf(n), last.arg).out.ret
                /\ last.ret[n] # NoPose
    /\ \A n \in get_object_names(clip) \ FilledNames : \A t \in ClipQueryTimes :
          evaluate(TrackOf(n), t).out = Returned(NoPose)

\* A clip of two names, one on a track without keyframes, evaluated inside the
\* bracket of the other track: the result has the one key and a blended pose.
C19_Witness ==
    /\ last.op = "clip.evaluate"
    /\ get_object_names(clip) = {"cube", "lamp"}
    /\ FilledNames = {"cube"}
    /\ DOMAIN last.ret = {"cube"}
    /\ last.arg = 3
    /\ Len(TrackOf("cube").keyframes) = 2
    /\ last.ret["cube"] \notin {AxisA, AxisB}

\* The largest element of a non-empty set of numbers.
Largest(S) == CHOOSE x \in S : \A y \in S : y <= x

\* The latest keyframe time of a track, 0 for a track without keyframes.
TrackDuration(tr) == IF tr.keyframes = <<>> THEN 0 ELSE LatestTime(tr.keyframes)

\* The maximum of the durations of the tracks in the clip, 0 for a clip without
\* tracks.
LongestTrack ==
    IF clip = <<>> THEN 0
    ELSE Largest({TrackDuration(TrackOf(n)) : n \in get_object_names(clip)})

\* C20 (clip duration): after any sequence of add_animation, remove_animation, clear
\* and of add_keyframe and clear on the tracks, Clip.get_duration() is the maximum
\* over the tracks in the clip of the latest keyframe time of the track (0 for a
\* track without keyframes), and 0 when the clip has no tracks.
C20_ClipDuration ==
    /\ clip_get_duration(clip, tracks).time = LongestTrack
    /\ last.op = "clip.get_duration" => (last.exc = "none" /\ last.ret = LongestTrack)

\* The duration was asked of a clip of two filled tracks, the first of which is the
\* longer one.
C20_Witness ==
    /\ last.op = "clip.get_duration"
    /\ Len(clip) = 2
    /\ clip[1].animation # clip[2].animation
    /\ TrackDuration(tracks[clip[1].animation]) = 5
    /\ TrackDuration(tracks[clip[2].animation]) = 2
    /\ Len(tracks[clip[1].animation].keyframes) = 2
    /\ last.ret = 5

\* --------------------------------------------------------------------------
\* Floating-point time.  The player computes its time with Python floats
\* (current_time += delta_time * speed, current_time % duration).  A float here is
\* an integer number of time units that fits a mantissa of MantissaBits bits; every
\* arithmetic result is rounded to the nearest such number, ties to the even
\* mantissa, as IEEE 754 arithmetic does with its 53 bits.
\* --------------------------------------------------------------------------

MantissaBits == 3

\* The spacing of the floats around the magnitude a >= 0.
RECURSIVE Ulp(_)
Ulp(a) == IF a < 2 ^ MantissaBits THEN 1 ELSE 2 * Ulp(a \div 2)

\* The multiple of u nearest to a >= 0, ties to the even multiple.
RoundToEven(a, u) ==
    LET q == a \div u
        r == a % u
    IN  IF 2 * r < u \/ (2 * r = u /\ q % 2 = 0) THEN q * u ELSE (q + 1) * u

\* The float nearest to the number x.
Fl(x) == IF x < 0 THEN -RoundToEven(-x, Ulp(-x)) ELSE RoundToEven(x, Ulp(x))

\* a + b and a * b on floats.
FAdd(a, b) == Fl(a + b)
FMul(a, b) == Fl(a * b)

\* C's fmod(x, y) for y > 0: the exact remainder with the sign of x.
fmod(x, y) == IF x < 0 THEN -((-x) % y) ELSE x % y

\* x % y on Python floats for y > 0: fmod, and y is added to a negative remainder;
\* that sum is rounded.
FMod(x, y) == IF fmod(x, y) < 0 THEN FAdd(fmod(x, y), y) ELSE fmod(x, y)

\* --------------------------------------------------------------------------
\* AnimationPlayer
\* --------------------------------------------------------------------------

\* AnimationPlayer.__init__
NewPlayer(loop) == [loop |-> loop, current_time |-> 0, playing |-> FALSE, speed |-> 1]

\* AnimationPlayer.play, pause, stop, set_time, set_speed
play(pl) == [pl EXCEPT !.playing = TRUE]
pause(pl) == [pl EXCEPT !.playing = FALSE]

\* A stop that keeps the current time.
stop_without_rewind(pl) == [pl EXCEPT !.playing = FALSE]

stop(pl) == [pl EXCEPT !.playing = FALSE, !.current_time = 0]
set_time(pl, time) == [pl EXCEPT !.current_time = IF time > 0 THEN time ELSE 0]
set_speed(pl, speed) == [pl EXCEPT !.speed = speed]

\* AnimationPlayer.is_playing
is_playing(pl) == pl.playing

\* AnimationPlayer.is_finished: the tracks that clip.get_duration leaves and the
\* answer.
is_finished(pl, cl, trs) ==
    IF pl.loop THEN [tracks |-> trs, ret |-> FALSE]
    ELSE [tracks |-> clip_get_duration(cl, trs).tracks,
          ret |-> pl.current_time >= clip_get_duration(cl, trs).time]

\* An update that leaves the time where it is.
Advance_without_step(pl, delta_time) == pl

\* update, line 404: current_time += delta_time * speed.
Advance(pl, delta_time) ==
    [pl EXCEPT !.current_time = FAdd(@, FMul(delta_time, pl.speed))]

\* An end of playback that needs the time to pass the duration.
HandleLooping_strict(pl, duration) ==
    IF duration > 0
    THEN IF pl.loop THEN [pl EXCEPT !.current_time = FMod(@, duration)]
         ELSE IF pl.current_time > duration
              THEN [pl EXCEPT !.current_time = duration, !.playing = FALSE]
              ELSE pl
    ELSE pl

\* update, lines 407-414, on the player pl that line 404 left.
HandleLooping(pl, duration) ==
    IF duration > 0
    THEN IF pl.loop THEN [pl EXCEPT !.current_time = FMod(@, duration)]
         ELSE IF pl.current_time >= duration
              THEN [pl EXCEPT !.current_time = duration, !.playing = FALSE]
              ELSE pl
    ELSE pl

\* An update that advances a player whether or not it is playing.
update_regardless(pl, cl, trs, delta_time) ==
    [tracks |-> clip_get_duration(cl, trs).tracks,
     player |-> HandleLooping(Advance(pl, delta_time), clip_get_duration(cl, trs).time)]

\* AnimationPlayer.update: the tracks that clip.get_duration leaves and the player.
update(pl, cl, trs, delta_time) ==
    IF ~pl.playing THEN [tracks |-> trs, player |-> pl]
    ELSE [tracks |-> clip_get_duration(cl, trs).tracks,
          player |-> HandleLooping(Advance(pl, delta_time),
                                   clip_get_duration(cl, trs).time)]

\* AnimationPlayer.get_current_poses
get_current_poses(pl, cl, trs) == clip_evaluate(cl, trs, pl.current_time)

\* --------------------------------------------------------------------------
\* A client of one player: a render loop that controls the player, updates it, and
\* applies its current poses to the scene node of the animated object.
\* --------------------------------------------------------------------------

\* The largest magnitude the playback time is driven to.
MaxPlayerTime == 20

\* The clip the player is constructed on: no track, a track of axis-angle poses up
\* to time 16, or a track of quaternion poses up to time 5.  The tracks snap (step
\* policy), so every pose they return is one of their keyframes' poses.
PlayerClips == {"empty", "axis", "quat"}

\* The values the render loop passes.
DeltaTimes == {-1, 0, 1, 3, 6}
Speeds == {-1, 1, 2}
SeekTimes == {-2, 0, 3, 16}

\* A track with two keyframes added in time order.
TrackOfTwo(interpolation, t1, p1, t2, p2) ==
    add_keyframe(add_keyframe(NewTrack(interpolation), t1, p1).track, t2, p2).track

\* The tracks and the clip of a run.
PlayerTracks ==
    CASE varied = "axis" -> <<TrackOfTwo("step", 0, AxisA, 16, AxisB)>>
      [] varied = "quat" -> <<TrackOfTwo("step", 0, QuatA, 5, QuatB)>>
      [] OTHER -> <<>>
PlayerClip == IF varied = "empty" THEN <<>> ELSE add_animation(<<>>, "cube", 1)

\* The scene node that carries the animated object "cube".
CubeNode == 1

\* The state after Sphere(pose=PoseT) for the node, the construction of the clip, and
\* AnimationPlayer(clip, loop).
InitPlayer ==
    /\ varied \in PlayerClips
    /\ objs = {CubeNode}
    /\ pose = [n \in Node |-> PoseT]
    /\ scaling = [n \in Node |-> ScalingUnit]
    /\ parent = [n \in Node |-> None]
    /\ children = [n \in Node |-> <<>>]
    /\ local_transform_dirty = [n \in Node |-> TRUE]
    /\ world_transform_dirty = [n \in Node |-> TRUE]
    /\ local_transform_cache = [n \in Node |-> NoMatrix]
    /\ world_transform_cache = [n \in Node |-> NoMatrix]
    /\ tracks = PlayerTracks
    /\ clip = PlayerClip
    /\ found = <<>>
    /\ \E loop \in BOOLEAN : player = NewPlayer(loop)
    /\ threads = <<>>
    /\ NoScene
    /\ last = Call("__init__", None, None, None, "none", NoPose)

\* A call on the player: the player and the tracks it leaves, and the outcome.
CommitPlayer(op, arg, pl, trs, out) ==
    /\ player' = pl
    /\ tracks' = trs
    /\ last' = Call(op, None, arg, None, out.exc, out.ret)
    /\ UNCHANGED <<hierarchyVars, varied, clip, found, threads, sceneVars>>

Play == CommitPlayer("play", None, play(player), tracks, Returned(NoPose))
Pause == CommitPlayer("pause", None, pause(player), tracks, Returned(NoPose))
Stop == CommitPlayer("stop", None, stop(player), tracks, Returned(NoPose))
SetTime(time) == CommitPlayer("set_time", time, set_time(player, time), tracks, Returned(NoPose))
SetSpeed(speed) ==
    CommitPlayer("set_speed", speed, set_speed(player, speed), tracks, Returned(NoPose))

IsFinished ==
    \E r \in {is_finished(player, clip, tracks)} :
        CommitPlayer("is_finished", None, player, r.tracks, Returned(r.ret))

Update(delta_time) ==
    \E r \in {update(player, clip, tracks, delta_time)} :
        /\ Abs(r.player.current_time) <= MaxPlayerTime
        /\ CommitPlayer("update", delta_time, r.player, r.tracks, Returned(NoPose))

\* An animation pose as the scene graph holds it: the vectors of an axis-angle pose
\* are whole numbers here and are written as such; a PoseQuat is stored as it is.
WholeVector(v) == <<v[1][1] \div v[1][2], v[2][1] \div v[2][2], v[3][1] \div v[3][2]>>
NodePose(p) ==
    IF p.kind = "Pose"
    THEN [translation |-> WholeVector(p.translation), rotation |-> WholeVector(p.rotation)]
    ELSE p

\* The loop of the render loop over the poses: scene_objects[obj_name].set_pose(pose).
ApplyTo(h, poses) ==
    IF "cube" \in DOMAIN poses THEN set_pose(h, CubeNode, NodePose(poses["cube"])) ELSE h

\* poses = player.get_current_poses(), then set_pose of every named node.
ApplyCurrentPoses ==
    \E r \in {get_current_poses(player, clip, tracks)} :
        /\ Store(ApplyTo(Heap, r.out.ret))
        /\ tracks' = r.tracks
        /\ last' = Call("get_current_poses", CubeNode, player.current_time, None,
                        r.out.exc, r.out.ret)
        /\ UNCHANGED <<objs, varied, clip, found, playbackVars, sceneVars>>

\* get_world_transform of the animated node.
QueryNode ==
    \E h \in {get_world_transform(Heap, CubeNode)} :
        /\ Store(h)
        /\ last' = Call("get_world_transform", CubeNode, None, None, h.exc, h.ret)
        /\ UNCHANGED <<objs, varied, animationVars, playbackVars, sceneVars>>

NextPlayer ==
    \/ Play
    \/ Pause
    \/ Stop
    \/ \E time \in SeekTimes : SetTime(time)
    \/ \E speed \in Speeds : SetSpeed(speed)
    \/ IsFinished
    \/ \E delta_time \in DeltaTimes : Update(delta_time)
    \/ ApplyCurrentPoses
    \/ QueryNode

SpecPlayer == InitPlayer /\ [][NextPlayer]_vars

\* --------------------------------------------------------------------------
\* Properties of the player
\* --------------------------------------------------------------------------

\* The duration of the player's clip.
PlayerDuration == clip_get_duration(clip, tracks).time

\* The step is an update of a playing player.
UpdatesPlaying == last'.op = "update" /\ player.playing

\* old time + delta_time * speed, as the floats give it.
AdvancedTime == FAdd(player.current_time, FMul(last'.arg, player.speed))

\* An update of a playing, non-looping player over a clip of positive duration: at
\* or past the end the time becomes the duration, the player stops and is finished;
\* before the end the time is the sum and the player keeps playing.
EndsAtDuration ==
    (UpdatesPlaying /\ ~player.loop /\ PlayerDuration > 0) =>
        /\ AdvancedTime >= PlayerDuration =>
              /\ player'.current_time = PlayerDuration
              /\ ~player'.playing
              /\ is_finished(player', clip', tracks').ret
        /\ AdvancedTime < PlayerDuration =>
              /\ player'.current_time = AdvancedTime
              /\ player'.playing

\* A looping player is not finished, whatever its time.
LoopingNeverFinished ==
    /\ player.loop => ~is_finished(player, clip, tracks).ret
    /\ (last.op = "is_finished" /\ player.loop) => last.ret = FALSE

\* C21 (non-looping end of playback): for a playing, non-looping player over a clip
\* of duration D > 0, an update with old time + dt*speed >= D sets the time to
\* exactly D and the playing flag to false, after which is_finished() is true; an
\* update with old time + dt*speed < D sets the time to that sum and leaves the
\* player playing; is_finished() is never true for a looping player.
C21_EndOfPlayback == [][EndsAtDuration]_vars /\ []LoopingNeverFinished

\* An update with a positive step has just ended the playback of the axis-angle
\* clip at its duration.
C21_Witness ==
    /\ last.op = "update"
    /\ last.arg > 0
    /\ varied = "axis"
    /\ ~player.loop
    /\ ~player.playing
    /\ player.speed > 0
    /\ player.current_time = 16
    /\ PlayerDuration = 16
    /\ is_finished(player, clip, tracks).ret

\* x modulo d for d > 0: the number in 0..(d - 1) that differs from x by a multiple
\* of d.
Modulo(x, d) == IF x >= 0 THEN x % d ELSE (d - ((-x) % d)) % d

\* C22 (looping wrap): for a playing, looping player over a clip of duration D > 0,
\* after every update the time equals (old time + dt*speed) modulo D, lies in the
\* half-open range [0, D), and the player is still playing.
C22_LoopingWrap ==
    [][(UpdatesPlaying /\ player.loop /\ PlayerDuration > 0) =>
          /\ player'.current_time = Modulo(AdvancedTime, PlayerDuration)
          /\ 0 <= player'.current_time
          /\ player'.current_time < PlayerDuration
          /\ player'.playing]_vars

\* C23 (update is a no-op unless playing): an update of a player whose playing flag
\* is false leaves the current time, the playing flag, the loop flag and the speed
\* unchanged, whatever the step dt.
C23_NoOpUnlessPlaying ==
    [][(last'.op = "update" /\ ~player.playing) =>
          /\ player'.current_time = player.current_time
          /\ player'.playing = player.playing
          /\ player'.loop = player.loop
          /\ player'.speed = player.speed]_vars

\* An update with a positive step on a paused player that is not at the end of its
\* clip: the time is where set_time put it.
C23_Witness ==
    /\ last.op = "update"
    /\ last.arg = 6
    /\ varied = "quat"
    /\ ~player.loop
    /\ ~player.playing
    /\ player.speed = 2
    /\ player.current_time = 3

\* The fields of the player that a control call must leave alone keep their value.
Keeps(fields) ==
    /\ "current_time" \in fields => player'.current_time = player.current_time
    /\ "playing" \in fields => player'.playing = player.playing
    /\ "speed" \in fields => player'.speed = player.speed
    /\ player'.loop = player.loop
    /\ UNCHANGED <<tracks, clip>>

\* What each control call does to the player.
ControlsAct ==
    /\ last'.op = "play" => (player'.playing /\ Keeps({"current_time", "speed"}))
    /\ last'.op = "pause" => (~player'.playing /\ Keeps({"current_time", "speed"}))
    /\ last'.op = "stop" =>
          (~player'.playing /\ player'.current_time = 0 /\ Keeps({"speed"}))
    /\ last'.op = "set_time" =>
          /\ player'.current_time = (IF last'.arg >= 0 THEN last'.arg ELSE 0)
          /\ Keeps({"playing", "speed"})
    /\ last'.op = "set_speed" =>
          (player'.speed = last'.arg /\ Keeps({"current_time", "playing"}))

\* C24 (player controls): a new player is not playing at time 0; play() sets the
\* playing flag and changes nothing else; pause() clears it and keeps the time;
\* stop() clears it and resets the time to 0; set_time(t) sets the time to
\* max(0, t) and does not change the playing flag; set_speed(s) changes only the
\* speed.
C24_Controls ==
    /\ [][ControlsAct]_vars
    /\ [](last.op = "__init__" => (~player.playing /\ player.current_time = 0))

\* A stop of a player that ran at double speed: the time is back at 0 and the speed
\* is kept.
C24_Witness ==
    /\ last.op = "stop"
    /\ ~player.playing
    /\ player.current_time = 0
    /\ player.speed = 2
    /\ player.loop

\* The translation of the pose object that the animated node holds.
CubeTranslation ==
    IF IsPoseQuat(pose[CubeNode]) THEN WholeVector(pose[CubeNode].translation)
    ELSE pose[CubeNode].translation

\* C25 (animation-to-scene bridge): for a clip whose tracks hold poses of either
\* representation, every pose that get_current_poses() returns can be passed as it
\* is to set_pose of a node, and the next get_world_transform of that node succeeds
\* and reflects that pose: it carries the translation of the pose, and for an
\* axis-angle pose it is the matrix of the pose and the scale.
C25_Bridge ==
    last.op = "get_world_transform" =>
        /\ last.exc = "none"
        /\ \A i \in 1..3 : last.ret[i][4] = CubeTranslation[i]
        /\ ~IsPoseQuat(pose[CubeNode]) =>
              last.ret = pose_to_matrix(pose[CubeNode], scaling[CubeNode])

\* --------------------------------------------------------------------------
\* Pose objects.  A node holds one pose object; get_pose() hands that object out,
\* so its setters act on the object the node holds.
\* --------------------------------------------------------------------------

\* Result of a method of a pose object: the object as the call leaves it, the
\* exception raised ("none" when it returned) and the value returned.
PoseCall(self, exc, ret) == [self |-> self, exc |-> exc, ret |-> ret]

\* A set_translation that assigns before it looks at the shape.
set_translation_unvalidated(p, translation) ==
    IF Len(translation) # 3 THEN PoseCall([p EXCEPT !.translation = translation], "ValueError", None)
    ELSE PoseCall([p EXCEPT !.translation = translation], "none", None)

\* Pose.set_translation and PoseQuat.set_translation: the shape is checked, then the
\* field of the existing object is assigned.
set_translation(p, translation) ==
    IF Len(translation) # 3 THEN PoseCall(p, "ValueError", None)
    ELSE PoseCall([p EXCEPT !.translation = translation], "none", None)

\* Pose.set_rotation
set_rotation(p, rotation) ==
    IF Len(rotation) # 3 THEN PoseCall(p, "ValueError", None)
    ELSE PoseCall([p EXCEPT !.rotation = rotation], "none", None)

\* PoseQuat.set_quaternion
set_quaternion(p, quaternion) == PoseCall([p EXCEPT !.quaternion = quaternion], "none", None)

\* get_translation, get_rotation, get_quaternion: the field is returned.
get_translation(p) == PoseCall(p, "none", p.translation)
get_rotation(p) == PoseCall(p, "none", p.rotation)
get_quaternion(p) == PoseCall(p, "none", p.quaternion)

\* PoseQuat.interpolate as a call on the object self.
InterpolateCall(self, other, t, method) ==
    PoseCall(self, interpolate(self, other, t, method).exc,
             interpolate(self, other, t, method).ret)

\* The pose objects the client constructs, and the vectors and quaternions it
\* passes to the setters: one vector has the wrong shape.
PoseObjects == {PoseT, PoseR, QuatA, QuatB}
SetterVectors == {<<0, 0, 0>>, <<1, 0, 0>>, <<1, 0>>}
SetterQuaternions == {QIdentity, QMinusIdentity}

\* The number of nodes whose pose objects the client works on.
PoseHolders == 2

\* A vector as the pose object p stores it (whole numbers are written as fractions
\* in a PoseQuat).
StoredVector(p, v) == IF IsPoseQuat(p) THEN [i \in DOMAIN v |-> RInt(v[i])] ELSE v

InitPose ==
    /\ varied = "pose"
    /\ NoNodes
    /\ NoAnimation
    /\ NoPlayback
    /\ NoScene
    /\ last = Call("none", None, None, None, "none", NoMatrix)

\* A method of the pose object of node n was called: the object it leaves is the
\* node's pose object; no method of the node ran, so no flag changes.
CommitPoseCall(op, n, arg, r) ==
    /\ pose' = [pose EXCEPT ![n] = r.self]
    /\ last' = Call(op, n, arg, None, r.exc, r.ret)
    /\ UNCHANGED <<objs, scaling, parent, children, local_transform_dirty,
                   world_transform_dirty, local_transform_cache, world_transform_cache,
                   varied, animationVars, playbackVars, sceneVars>>

PoseSetTranslation(n, v) ==
    CommitPoseCall("set_translation", n, StoredVector(pose[n], v),
                   set_translation(pose[n], StoredVector(pose[n], v)))

PoseSetRotation(n, v) ==
    /\ ~IsPoseQuat(pose[n])
    /\ CommitPoseCall("set_rotation", n, v, set_rotation(pose[n], v))

PoseSetQuaternion(n, q) ==
    /\ IsPoseQuat(pose[n])
    /\ CommitPoseCall("set_quaternion", n, q, set_quaternion(pose[n], q))

PoseGet(n) ==
    \/ CommitPoseCall("get_translation", n, None, get_translation(pose[n]))
    \/ /\ ~IsPoseQuat(pose[n])
       /\ CommitPoseCall("get_rotation", n, None, get_rotation(pose[n]))
    \/ /\ IsPoseQuat(pose[n])
       /\ CommitPoseCall("get_quaternion", n, None, get_quaternion(pose[n]))

PoseInterpolate(n, m, t, method) ==
    /\ IsPoseQuat(pose[n])
    /\ IsPoseQuat(pose[m])
    /\ CommitPoseCall("interpolate", n, m, InterpolateCall(pose[n], pose[m], t, method))

NewHolder(p) ==
    /\ Cardinality(objs) < PoseHolders
    /\ New(p, ScalingUnit, None)

NextPose ==
    \/ \E p \in PoseObjects : NewHolder(p)
    \/ \E n \in objs, p \in PoseObjects : SetPose(n, p)
    \/ \E n \in objs, v \in SetterVectors : PoseSetTranslation(n, v)
    \/ \E n \in objs, v \in SetterVectors : PoseSetRotation(n, v)
    \/ \E n \in objs, q \in SetterQuaternions : PoseSetQuaternion(n, q)
    \/ \E n \in objs : PoseGet(n)
    \/ \E n \in objs, m \in objs, method \in {"slerp", "lerp"} :
          PoseInterpolate(n, m, RHalf, method)

SpecPose == InitPose /\ [][NextPose]_vars

\* The pose object of node n is as it was, or the step is the call op on node n.
ChangedOnlyBy(n, ops) ==
    pose'[n] # pose[n] => (last'.self = n /\ last'.op \in ops /\ last'.exc = "none")

\* C26 as stated (pose immutability): no operation offered by the pose types
\* changes the translation or rotation of an existing pose object in place; the
\* pose of a node changes only when set_pose (or the constructor) replaces the
\* whole pose object.
C26_AsStated == [][\A n \in Node : ChangedOnlyBy(n, {"__init__", "set_pose"})]_vars

\* A setter of the pose types assigns its argument to its one field of the existing
\* object and leaves the other field.
SetterAssigns(n) ==
    /\ last'.op = "set_translation" =>
          (pose'[n].translation = last'.arg /\ pose'[n] = [pose[n] EXCEPT !.translation = last'.arg])
    /\ last'.op = "set_rotation" =>
          (pose'[n].rotation = last'.arg /\ pose'[n].translation = pose[n].translation)
    /\ last'.op = "set_quaternion" =>
          (pose'[n].quaternion = last'.arg /\ pose'[n].translation = pose[n].translation)

\* C26 as amended: the setters set_translation and set_rotation of Pose and
\* set_translation and set_quaternion of PoseQuat assign one field of the existing
\* pose object in place; no other operation offered by the pose types changes an
\* existing pose object, and the pose of a node changes only through set_pose (or
\* the constructor) or through such a setter called on the object the node holds.
C26_SettersOnly ==
    [][\A n \in Node :
          /\ ChangedOnlyBy(n, {"__init__", "set_pose", "set_translation", "set_rotation",
                               "set_quaternion"})
          /\ (pose'[n] # pose[n]) => SetterAssigns(n)]_vars

\* set_quaternion was called on the PoseQuat that node 2 holds: the node now holds
\* the new quaternion although no set_pose ran.
C26_Witness ==
    /\ last.op = "set_quaternion"
    /\ last.self = 2
    /\ last.arg = QMinusIdentity
    /\ pose[2].quaternion = QMinusIdentity
    /\ pose[2].translation = VInt(<<1, 0, 0>>)

\* --------------------------------------------------------------------------
\* Two threads on one tree: one runs set_pose on a parent, the other runs
\* get_world_transform on its child.  A run is atomic (every call is one step) or
\* interleaved (every call proceeds by the steps below and the other thread may
\* run between them).
\* --------------------------------------------------------------------------

\* The parent and its child.
Ancestor == 1
Descendant == 2

Schedules == {"atomic", "interleaved"}

\* Both threads are between calls.
Idle == [setter |-> "idle", getter |-> "idle", local |-> NoMatrix, parent_world |-> NoMatrix]

\* The fields of the heap h become the next state as they are; a cache is kept
\* under a set flag too, because a thread may clear the flag without refilling it.
StoreFields(h) ==
    /\ pose' = h.pose
    /\ scaling' = h.scaling
    /\ parent' = h.parent
    /\ children' = h.children
    /\ local_transform_dirty' = h.local_transform_dirty
    /\ world_transform_dirty' = h.world_transform_dirty
    /\ local_transform_cache' = h.local_transform_cache
    /\ world_transform_cache' = h.world_transform_cache

\* The state after Sphere(pose=PoseT) and Sphere(pose=PoseT, parent=<the first>).
InitThreads ==
    /\ varied \in Schedules
    /\ objs = {Ancestor, Descendant}
    /\ pose = [n \in Node |-> PoseT]
    /\ scaling = [n \in Node |-> ScalingUnit]
    /\ parent = [n \in Node |-> IF n = Descendant THEN Ancestor ELSE None]
    /\ children = [n \in Node |-> IF n = Ancestor THEN <<Descendant>> ELSE <<>>]
    /\ local_transform_dirty = [n \in Node |-> TRUE]
    /\ world_transform_dirty = [n \in Node |-> TRUE]
    /\ local_transform_cache = [n \in Node |-> NoMatrix]
    /\ world_transform_cache = [n \in Node |-> NoMatrix]
    /\ NoAnimation
    /\ player = <<>>
    /\ threads = Idle
    /\ NoScene
    /\ last = Call("none", None, None, None, "none", NoMatrix)

\* One step of a thread: the heap and the thread record it leaves.
Step(h, th, op, n) ==
    /\ StoreFields(h)
    /\ threads' = th
    /\ last' = Call(op, n, None, None, "none", h.ret)
    /\ UNCHANGED <<objs, varied, animationVars, player, sceneVars>>

\* set_pose, first statement: self.pose = pose.
AssignPose(p) ==
    /\ varied = "interleaved"
    /\ threads.setter = "idle"
    /\ Step([Heap EXCEPT !.pose[Ancestor] = p], [threads EXCEPT !.setter = "assigned"],
            "set_pose", Ancestor)

\* mark_transform_dirty of the parent: its own two flags.
MarkSelf ==
    /\ varied = "interleaved"
    /\ threads.setter = "assigned"
    /\ Step(SetDirty(Heap, {Ancestor}), [threads EXCEPT !.setter = "marked"],
            "set_pose", Ancestor)

\* The loop over self.children: child.mark_transform_dirty(); set_pose returns.
MarkChildren ==
    /\ varied = "interleaved"
    /\ threads.setter = "marked"
    /\ Step(SetDirty(Heap, ReachableThroughChildren(children, {Ancestor}) \ {Ancestor}),
            [threads EXCEPT !.setter = "idle"], "set_pose", Ancestor)

\* get_world_transform of the child, the test of its flag: a clean cache is
\* returned, otherwise the recomputation starts.
TestDirty ==
    /\ varied = "interleaved"
    /\ threads.getter = "idle"
    /\ IF world_transform_dirty[Descendant]
       THEN Step(Heap, [threads EXCEPT !.getter = "dirty"], "get_world_transform", Descendant)
       ELSE Step([Heap EXCEPT !.ret = world_transform_cache[Descendant]], threads,
                 "get_world_transform", Descendant)

\* local = self.get_local_transform()
ReadLocal ==
    /\ varied = "interleaved"
    /\ threads.getter = "dirty"
    /\ \E h \in {get_local_transform(Heap, Descendant)} :
          Step([h EXCEPT !.ret = NoMatrix],
               [threads EXCEPT !.getter = "local", !.local = h.ret],
               "get_world_transform", Descendant)

\* parent_world = self.parent.get_world_transform()
ReadParentWorld ==
    /\ varied = "interleaved"
    /\ threads.getter = "local"
    /\ \E h \in {get_world_transform(Heap, Ancestor)} :
          Step([h EXCEPT !.ret = NoMatrix],
               [threads EXCEPT !.getter = "parent_world", !.parent_world = h.ret],
               "get_world_transform", Descendant)

\* self._world_transform_cache = parent_world @ local
StoreCache ==
    /\ varied = "interleaved"
    /\ threads.getter = "parent_world"
    /\ Step([Heap EXCEPT !.world_transform_cache[Descendant] =
                             MatMul(threads.parent_world, threads.local)],
            [threads EXCEPT !.getter = "stored", !.local = NoMatrix,
                            !.parent_world = NoMatrix],
            "get_world_transform", Descendant)

\* self._world_transform_dirty = False; return self._world_transform_cache
ClearDirty ==
    /\ varied = "interleaved"
    /\ threads.getter = "stored"
    /\ Step([Heap EXCEPT !.world_transform_dirty[Descendant] = FALSE,
                         !.ret = world_transform_cache[Descendant]],
            [threads EXCEPT !.getter = "idle"], "get_world_transform", Descendant)

\* Every call is one step.
AtomicSetPose(p) ==
    /\ varied = "atomic"
    /\ \E h \in {set_pose(Heap, Ancestor, p)} : Step(h, threads, "set_pose", Ancestor)

AtomicGetWorldTransform ==
    /\ varied = "atomic"
    /\ \E h \in {get_world_transform(Heap, Descendant)} :
          Step(h, threads, "get_world_transform", Descendant)

NextThreads ==
    \/ \E p \in Poses : AtomicSetPose(p)
    \/ AtomicGetWorldTransform
    \/ \E p \in Poses : AssignPose(p)
    \/ MarkSelf
    \/ MarkChildren
    \/ TestDirty
    \/ ReadLocal
    \/ ReadParentWorld
    \/ StoreCache
    \/ ClearDirty

SpecThreads == InitThreads /\ [][NextThreads]_vars

\* Both calls have returned, the world-dirty flag of the child is cleared, and its
\* cached world transform is not the product for the current poses: it was computed
\* from a pose the parent no longer has.
StaleCleanCache ==
    /\ threads.setter = "idle"
    /\ threads.getter = "idle"
    /\ ~world_transform_dirty[Descendant]
    /\ world_transform_cache[Descendant] # RefWorld(Descendant)

\* C27 (need for external serialization): when set_pose on an ancestor and
\* get_world_transform on a descendant run atomically, no state is reachable in
\* which the descendant's world-dirty flag is cleared while its cached world
\* transform was computed from the ancestor's old pose; when their steps interleave,
\* such a state is reachable (C27_Witness).
C27_AtomicNeverStale == varied = "atomic" => ~StaleCleanCache

\* The interleaved run has reached the stale state: the parent holds the rotating
\* pose, the clean cache of the child is still the product for the translating pose.
C27_Witness ==
    /\ varied = "interleaved"
    /\ StaleCleanCache
    /\ pose[Ancestor] = PoseR
    /\ world_transform_cache[Descendant] = MatMul(pose_to_matrix(PoseT, ScalingUnit),
                                                  pose_to_matrix(PoseT, ScalingUnit))

\* --------------------------------------------------------------------------
\* Termination of the hierarchy traversals.  Each traversal is run with a number
\* of loop iterations or nested calls it may use; it ends when it needs no more.
\* --------------------------------------------------------------------------

\* No walk or recursion over a tree of the modelled size needs more.
TraversalFuel == NumNodes + 1

\* The loop `while current is not None: ...; current = current.get_parent()` started
\* at c ends within fuel iterations; the loop of _would_create_cycle also ends when
\* current is self (until), the loop of get_depth only at None (until = None).
RECURSIVE WalkEnds(_, _, _, _)
WalkEnds(par, c, until, fuel) ==
    \/ c = None
    \/ c = until
    \/ fuel > 0 /\ WalkEnds(par, par[c], until, fuel - 1)

\* The recursion `for child in self.children: child.<same method>()` entered at n
\* ends within fuel nested calls: mark_transform_dirty, get_hierarchy_depth and
\* get_descendant_count all recurse this way.
RECURSIVE DescentEnds(_, _, _)
DescentEnds(ch, n, fuel) ==
    /\ fuel > 0
    /\ \A i \in 1..Len(ch[n]) : DescentEnds(ch, ch[n][i], fuel - 1)

\* The recursion of get_world_transform entered at n ends within fuel nested calls:
\* a clean node returns its cache, a dirty root its local transform, a dirty child
\* first calls its parent.
RECURSIVE RecomputationEnds(_, _)
RecomputationEnds(n, fuel) ==
    /\ fuel > 0
    /\ \/ ~world_transform_dirty[n]
       \/ parent[n] = None
       \/ RecomputationEnds(parent[n], fuel - 1)

\* C28 (termination of traversals): in every reachable state the cycle-check walk
\* (for every node and every candidate parent), the recursive dirty marking, the
\* world-transform recomputation, get_depth, get_hierarchy_depth and
\* get_descendant_count all terminate, on every node.
C28_TraversalsTerminate ==
    \A n \in objs :
        /\ \A potential_parent \in objs : WalkEnds(parent, potential_parent, n, TraversalFuel)
        /\ WalkEnds(parent, parent[n], None, TraversalFuel)
        /\ DescentEnds(children, n, TraversalFuel)
        /\ RecomputationEnds(n, TraversalFuel)

\* A chain of three nodes, the lowest one dirty with dirty ancestors: the walks from
\* it take two steps up, the recursions from the root two levels down, and the
\* recomputation three nested calls; one step of fuel less would not do.
C28_Witness ==
    \E a, b, c \in objs :
        /\ parent[a] = None /\ parent[b] = a /\ parent[c] = b
        /\ children[a] = <<b>> /\ children[b] = <<c>>
        /\ world_transform_dirty[a] /\ world_transform_dirty[b] /\ world_transform_dirty[c]
        /\ last.op = "set_parent"
        /\ ~DescentEnds(children, a, 2)
        /\ ~WalkEnds(parent, parent[c], None, 1)

\* --------------------------------------------------------------------------
\* The order of composition, on trees whose nodes all carry the non-uniform scale.
\* --------------------------------------------------------------------------

InitCompose ==
    /\ varied = "compose"
    /\ NoNodes
    /\ NoAnimation
    /\ NoPlayback
    /\ NoScene
    /\ last = Call("none", None, None, None, "none", NoMatrix)

SpecCompose == InitCompose /\ [][Next]_vars

\* The point that the 4x4 matrix M maps the point v to (M @ [x, y, z, 1]).
MapPoint(M, v) ==
    [i \in 1..3 |-> M[i][1] * v[1] + M[i][2] * v[2] + M[i][3] * v[3] + M[i][4]]

\* The three steps on points: scale component by component, turn by the quarter
\* turns of r about Z, move by t.
ScalePoint(s, v) == <<s[1] * v[1], s[2] * v[2], s[3] * v[3]>>
TurnPointAboutZ(r, v) ==
    <<CosQ(r[3]) * v[1] - SinQ(r[3]) * v[2], SinQ(r[3]) * v[1] + CosQ(r[3]) * v[2], v[3]>>
MovePoint(t, v) == <<v[1] + t[1], v[2] + t[2], v[3] + t[3]>>

\* Points that tell the orders apart.
ProbePoints == {<<1, 0, 0>>, <<0, 1, 0>>, <<0, 0, 1>>, <<1, 2, 3>>}

\* C29 (composition order): a cached local transform of a node is the composition of
\* its pose and its scale in the order translation x rotation x scale, so it maps a
\* point by scaling it first, rotating it next and translating it last; translating
\* by (1,0,0), rotating 90 degrees about Z and scaling by (2,1,1) maps the point
\* (1,0,0) to (1,2,0); and a cached world transform of a child is its parent's world
\* transform times its own local transform, in that order.
C29_CompositionOrder ==
    \A n \in objs :
        /\ ~local_transform_dirty[n] =>
              /\ \A v \in ProbePoints :
                    MapPoint(local_transform_cache[n], v) =
                        MovePoint(pose[n].translation,
                                  TurnPointAboutZ(pose[n].rotation, ScalePoint(scaling[n], v)))
              /\ (pose[n] = PoseTR /\ scaling[n] = ScalingX2) =>
                    MapPoint(local_transform_cache[n], <<1, 0, 0>>) = <<1, 2, 0>>
        /\ (~world_transform_dirty[n] /\ parent[n] # None) =>
              /\ world_transform_cache[n] = MatMul(RefWorld(parent[n]), Local(n))
              /\ \A v \in ProbePoints :
                    MapPoint(world_transform_cache[n], v) =
                        MapPoint(RefWorld(parent[n]), MapPoint(Local(n), v))

\* A child with the translating pose below a parent that translates and turns has
\* just been queried: its caches are filled, the parent's local transform maps
\* (1,0,0) to (1,2,0), and the product in the other order would be another matrix.
C29_Witness ==
    /\ varied = "compose"
    /\ last.op = "get_world_transform"
    /\ last.exc = "none"
    /\ parent[last.self] # None
    /\ pose[parent[last.self]] = PoseTR
    /\ pose[last.self] = PoseT
    /\ ~local_transform_dirty[parent[last.self]]
    /\ MapPoint(local_transform_cache[parent[last.self]], <<1, 0, 0>>) = <<1, 2, 0>>
    /\ ~world_transform_dirty[last.self]
    /\ world_transform_cache[last.self] # MatMul(Local(last.self), RefWorld(parent[last.self]))

\* --------------------------------------------------------------------------
\* slerp on unit quaternions.
\* --------------------------------------------------------------------------

\* Unit quaternions with rational components: the signed basis quaternions and the
\* quaternion with four halves, with its negative.  Their dot products are 0, 1/2,
\* -1/2, 1 and -1.
QHalves == <<RHalf, RHalf, RHalf, RHalf>>
UnitQuaternions ==
    {VInt(<<1, 0, 0, 0>>), VInt(<<-1, 0, 0, 0>>), VInt(<<0, 1, 0, 0>>), VInt(<<0, -1, 0, 0>>),
     VInt(<<0, 0, 1, 0>>), VInt(<<0, 0, -1, 0>>), VInt(<<0, 0, 0, 1>>), VInt(<<0, 0, 0, -1>>),
     QHalves, VScale(QHalves, RInt(-1))}

\* Interpolation parameters: below the range, its ends, inside, above.
SlerpParameters == {RInt(-1), RZero, RHalf, ROne, RInt(2)}

InitQuat ==
    /\ varied = "slerp"
    /\ NoNodes
    /\ NoAnimation
    /\ NoPlayback
    /\ NoScene
    /\ last = Call("none", None, None, None, "none", NoMatrix)

\* result = slerp(q1, q2, t)
Slerp(q1, q2, t) ==
    /\ last' = Call("slerp", None, <<q1, q2, t>>, None, "none", slerp(q1, q2, t))
    /\ UNCHANGED <<hierarchyVars, varied, animationVars, playbackVars, sceneVars>>

NextQuat ==
    \E q1 \in UnitQuaternions, q2 \in UnitQuaternions, t \in SlerpParameters : Slerp(q1, q2, t)

SpecQuat == InitQuat /\ [][NextQuat]_vars

\* The result r is a quaternion (not the unevaluated triple) of norm 1.
HasNormOne(r) == Len(r) = 4 => QDot(r, r) = ROne

\* The result at a t outside [0, 1] is the result at the clamped t, and every
\* evaluated result has norm 1.
ClampedAndUnit(q1, q2, t, r) ==
    /\ RLess(t, RZero) => r = slerp(q1, q2, RZero)
    /\ RLess(ROne, t) => r = slerp(q1, q2, ROne)
    /\ HasNormOne(r)

MkAngle(wind, c, s) == [wind |-> wind, c |-> c, s |-> s]
AngleZero == MkAngle(0, ROne, RZero)

\* math.cos(angle / 2.0) and math.sin(angle / 2.0)
HalfTurnSign(a) == IF a.wind % 2 = 0 THEN RInt(1) ELSE RInt(-1)
CosHalf(a) == RMul(HalfTurnSign(a), a.c)
SinHalf(a) == RMul(HalfTurnSign(a), a.s)

\* 2.0 * math.acos(w) for w in [-1, 1]: the half lies in [0, pi].
TwiceAcos(w) ==
    IF w = RInt(-1) THEN MkAngle(1, ROne, RZero)
    ELSE MkAngle(0, w, RSqrt(RSub(ROne, RMul(w, w))))

\* angle < 1e-10 (an angle is not negative; the angles here are zero or far from it)
AngleIsTiny(a) == a = AngleZero

\* np.linalg.norm of a vector of three rationals.
VNorm(v) == RSqrt(RAdd(RAdd(RMul(v[1], v[1]), RMul(v[2], v[2])), RMul(v[3], v[3])))

\* array / scalar
VOver(v, r) == [k \in DOMAIN v |-> RDiv(v[k], r)]

ZeroVector == VInt(<<0, 0, 0>>)
AxisZ == VInt(<<0, 0, 1>>)

\* axis * angle for a unit axis.
AxisTimesAngle(u, a) ==
    IF AngleIsTiny(a) THEN [axis |-> ZeroVector, angle |-> AngleZero]
    ELSE [axis |-> u, angle |-> a]

\* Quaternion.from_axis_angle
from_axis_angle(u, a) ==
    LET axis_norm == VNorm(u)
    IN  IF axis_norm = RZero THEN QIdentity
        ELSE LET unit == VOver(u, axis_norm)
                 sin_half == SinHalf(a)
             IN  <<CosHalf(a), RMul(unit[1], sin_half), RMul(unit[2], sin_half),
                   RMul(unit[3], sin_half)>>

\* Quaternion.from_axis_angle_vector: angle = norm, axis = axis_angle / angle.
from_axis_angle_vector(v) ==
    IF AngleIsTiny(v.angle) THEN QIdentity ELSE from_axis_angle(v.axis, v.angle)

\* to_axis_angle that returns the vector part as the axis, without the division by
\* sin_half.
to_axis_angle_undivided(q) ==
    LET norm == RSqrt(QDot(q, q))
    IN  IF norm = RZero THEN Returned(<<AxisZ, AngleZero>>)
        ELSE Returned(<<VOver(<<q[2], q[3], q[4]>>, norm), TwiceAcos(RDiv(q[1], norm))>>)

\* to_axis_angle without the early return for a norm below 1e-10: the division
\* w/norm of two Python floats raises when the norm is zero.
to_axis_angle_unguarded(q) ==
    LET norm == RSqrt(QDot(q, q))
    IN  IF norm = RZero THEN Raised("ZeroDivisionError")
        ELSE LET n == VOver(q, norm)
                 a == TwiceAcos(n[1])
             IN  IF SinHalf(a) = RZero THEN Returned(<<AxisZ, a>>)
                 ELSE Returned(<<VOver(<<n[2], n[3], n[4]>>, SinHalf(a)), a>>)

\* Quaternion.to_axis_angle: (axis, angle).  Below the norm 1e-10 it returns +Z and
\* 0.0 before dividing; w/norm, x/norm, ... divide Python floats, the axis is a
\* numpy array divided by sin_half unless |sin_half| < 1e-10.
to_axis_angle(q) ==
    LET norm == RSqrt(QDot(q, q))
    IN  IF norm = RZero THEN Returned(<<AxisZ, AngleZero>>)
        ELSE LET n == VOver(q, norm)
                 a == TwiceAcos(n[1])
                 sin_half == SinHalf(a)
             IN  IF sin_half = RZero THEN Returned(<<AxisZ, a>>)
                 ELSE Returned(<<VOver(<<n[2], n[3], n[4]>>, sin_half), a>>)

\* Quaternion.to_axis_angle_vector
to_axis_angle_vector(q) ==
    LET r == to_axis_angle(q)
    IN  IF r.exc # "none" THEN r ELSE Returned(AxisTimesAngle(r.ret[1], r.ret[2]))

\* Quaternion.conjugate
conjugate(q) == <<q[1], RNeg(q[2]), RNeg(q[3]), RNeg(q[4])>>

\* Quaternion.inverse: the identity when the squared norm is below 1e-10.
inverse(q) ==
    IF QDot(q, q) = RZero THEN QIdentity ELSE VOver(conjugate(q), QDot(q, q))

\* Pose.to_pose_quat and PoseQuat.to_pose
to_pose_quat(p) == MkPoseQuat(p.translation, from_axis_angle_vector(p.rotation))
to_pose(p) ==
    LET r == to_axis_angle_vector(p.quaternion)
    IN  IF r.exc # "none" THEN r ELSE Returned(MkPose(p.translation, r.ret))

\* Axes: the signed basis vectors, a unit vector off the basis, a vector of length
\* 2, and the zero vector.
UnitAxes ==
    {VInt(<<1, 0, 0>>), VInt(<<-1, 0, 0>>), VInt(<<0, 1, 0>>), VInt(<<0, -1, 0>>),
     VInt(<<0, 0, 1>>), VInt(<<0, 0, -1>>), <<<<3, 5>>, <<4, 5>>, RZero>>}
Axes == UnitAxes \cup {VInt(<<2, 0, 0>>), ZeroVector}

\* Angles: 0, two angles inside (0, pi), pi, one inside (pi, 2 pi), and the same
\* plus a full turn.
MaxWind == 1
HalfPoints == {<<ROne, RZero>>, <<<<4, 5>>, <<3, 5>>>>, <<<<3, 5>>, <<4, 5>>>>,
               <<RZero, ROne>>, <<<<-3, 5>>, <<4, 5>>>>}
Angles == {MkAngle(wind, h[1], h[2]) : wind \in 0..MaxWind, h \in HalfPoints}

\* Axis-angle poses: every direction with every angle.
RotationVectors == {AxisTimesAngle(u, a) : u \in UnitAxes, a \in Angles}
ConvertedPoses == {MkPose(VInt(<<1, 2, 3>>), v) : v \in RotationVectors}

InitRotation ==
    /\ varied = "rotation"
    /\ NoNodes
    /\ NoAnimation
    /\ NoPlayback
    /\ NoScene
    /\ last = Call("none", None, None, None, "none", NoMatrix)

\* Quaternions given component by component: the zero quaternion, the identity and
\* its negative, one of norm 2, a unit quaternion with two non-zero components.
QZero == VInt(<<0, 0, 0, 0>>)
GivenQuaternions ==
    {QZero, QIdentity, QMinusIdentity, VInt(<<0, 2, 0, 0>>), <<<<3, 5>>, <<4, 5>>, RZero, RZero>>}

\* Axis-angle vectors in quarter turns, as rotation_to_matrix takes them.
QuarterTurnVectors == {<<0, 0, 0>>, <<0, 0, 1>>, <<1, 0, 0>>}

\* The call op with argument arg left the outcome out; old is the value a
\* conversion chain started from.
CommitRotation(op, arg, old, out) ==
    /\ last' = Call(op, None, arg, old, out.exc, out.ret)
    /\ UNCHANGED <<hierarchyVars, varied, animationVars, playbackVars, sceneVars>>

\* The last call returned a quaternion.
HoldsQuaternion == last.op \in {"from_axis_angle", "Quaternion", "normalize", "inverse"}

\* q = Quaternion(w, x, y, z)
NewQuaternion(q) == CommitRotation("Quaternion", q, None, Returned(q))

\* q = Quaternion.from_axis_angle(axis, angle)
FromAxisAngle(u, a) ==
    CommitRotation("from_axis_angle", <<u, a>>, None, Returned(from_axis_angle(u, a)))

\* q.to_axis_angle() on the quaternion just obtained.
ToAxisAngle ==
    /\ HoldsQuaternion
    /\ CommitRotation("to_axis_angle", last.ret,
                      IF last.op = "from_axis_angle" THEN last.arg ELSE <<>>,
                      to_axis_angle(last.ret))

\* q.normalize() and q.inverse() on the quaternion just obtained.
Normalize ==
    /\ HoldsQuaternion
    /\ CommitRotation("normalize", last.ret, None, Returned(QNormalize(last.ret)))

Inverse ==
    /\ HoldsQuaternion
    /\ CommitRotation("inverse", last.ret, None, Returned(inverse(last.ret)))

\* rotation_to_matrix(r), which embeds axis_angle_to_rotation_matrix(r).
RotationToMatrix(r) ==
    CommitRotation("rotation_to_matrix", r, None, Returned(rotation_to_matrix(r)))

\* pose.to_pose_quat()
ToPoseQuat(p) == CommitRotation("to_pose_quat", p, None, Returned(to_pose_quat(p)))

\* pose_quat.to_pose() on the pose just converted.
ToPose ==
    /\ last.op = "to_pose_quat"
    /\ CommitRotation("to_pose", last.ret, last.arg, to_pose(last.ret))

NextRotation ==
    \/ \E q \in GivenQuaternions : NewQuaternion(q)
    \/ \E u \in Axes, a \in Angles : FromAxisAngle(u, a)
    \/ ToAxisAngle
    \/ Normalize
    \/ Inverse
    \/ \E r \in QuarterTurnVectors : RotationToMatrix(r)
    \/ \E p \in ConvertedPoses : ToPoseQuat(p)
    \/ ToPose

SpecRotation == InitRotation /\ [][NextRotation]_vars

\* The angle a lies in (0, pi): its half lies in (0, pi / 2).
InsideHalfTurn(a) == a.wind = 0 /\ RLess(RZero, a.c) /\ RLess(RZero, a.s)

\* The angle a lies in (0, 2 pi).
InsideFullTurn(a) == a.wind = 0 /\ a # AngleZero

\* to_axis_angle has just been called on a quaternion built by from_axis_angle.
FromAxisAndAngle == last.op = "to_axis_angle" /\ Len(last.old) = 2

\* For an axis that is not the zero vector and an angle in (0, pi), the axis
\* returned is the given axis at unit length (the given axis itself when it is a
\* unit vector) and the angle is the given angle.

AxisAngleRecovered ==
    (FromAxisAndAngle /\ last.old[1] # ZeroVector /\ InsideHalfTurn(last.old[2])) =>
        /\ last.ret[1] = VOver(last.old[1], VNorm(last.old[1]))
        /\ last.old[1] \in UnitAxes => last.ret[1] = last.old[1]
        /\ last.ret[2] = last.old[2]

ZeroAxisGiven == last.op = "from_axis_angle" /\ last.arg[1] = ZeroVector
WholeTurnGiven ==
    /\ last.op = "to_axis_angle"
    /\ last.arg # QZero
    /\ <<last.arg[2], last.arg[3], last.arg[4]>> = ZeroVector
ZeroQuaternionGiven == last.op \in {"normalize", "inverse"} /\ last.arg = QZero
ZeroRotationGiven == last.op = "rotation_to_matrix" /\ last.arg = <<0, 0, 0>>

\* C32 (degenerate geometry never raises): from_axis_angle with an axis of magnitude
\* below 1e-10 returns the identity rotation whatever the angle; to_axis_angle of a
\* quaternion whose rotation angle is 0 or 2 pi returns the axis +Z; inverse and
\* normalize of a quaternion of near-zero norm return the identity; a zero
\* axis-angle vector converts to the identity matrix; and none of the calls raises.
C32_DegenerateGeometry ==
    /\ last.exc = "none"
    /\ ZeroAxisGiven => last.ret = QIdentity
    /\ WholeTurnGiven => last.ret[1] = AxisZ
    /\ ZeroQuaternionGiven => last.ret = QIdentity
    /\ ZeroRotationGiven => last.ret = Eye4

\* to_axis_angle has just returned for minus the identity, which from_axis_angle
\* built from a full turn about X: the axis is +Z and the angle 2 pi.
C32_Witness ==
    /\ last.op = "to_axis_angle"
    /\ last.arg = QMinusIdentity
    /\ last.old = <<VInt(<<1, 0, 0>>), MkAngle(1, ROne, RZero)>>
    /\ last.exc = "none"
    /\ last.ret = <<AxisZ, MkAngle(1, ROne, RZero)>>

\* --------------------------------------------------------------------------
\* In-place setters on the pose and scaling objects that nodes of a tree hold.
\* --------------------------------------------------------------------------

\* Scaling.set_scaling: the shape is checked, then x, y and z of the existing object
\* are assigned.
Scaling_set_scaling(sc, v) ==
    IF Len(v) # 3 THEN PoseCall(sc, "ValueError", None)
    ELSE PoseCall(<<v[1], v[2], v[3]>>, "none", None)

\* The arrays passed to Scaling.set_scaling: one has the wrong shape.
SetterScalings == {ScalingUnit, ScalingX2, <<1, 0>>}

InitInPlace ==
    /\ varied = "inplace"
    /\ NoNodes
    /\ NoAnimation
    /\ NoPlayback
    /\ NoScene
    /\ last = Call("none", None, None, None, "none", NoMatrix)

\* Sphere(pose=PoseT, parent=par)
NewBelow(par) ==
    /\ Cardinality(objs) < PoseHolders
    /\ New(PoseT, ScalingUnit, par)

\* node.get_scaling().set_scaling(v): the object it leaves is the node's scaling
\* object; no method of the node ran, so no flag changes.
ScalingSetScaling(n, v) ==
    \E r \in {Scaling_set_scaling(scaling[n], v)} :
        /\ scaling' = [scaling EXCEPT ![n] = r.self]
        /\ last' = Call("Scaling.set_scaling", n, v, None, r.exc, r.ret)
        /\ UNCHANGED <<objs, pose, parent, children, local_transform_dirty,
                       world_transform_dirty, local_transform_cache,
                       world_transform_cache, varied, animationVars, playbackVars, sceneVars>>

NextInPlace ==
    \/ \E par \in objs \cup {None} : NewBelow(par)
    \/ \E n \in objs, v \in SetterVectors : PoseSetTranslation(n, v)
    \/ \E n \in objs, v \in SetterVectors : PoseSetRotation(n, v)
    \/ \E n \in objs, v \in SetterScalings : ScalingSetScaling(n, v)
    \/ \E n \in objs : GetWorldTransform(n)

SpecInPlace == InitInPlace /\ [][NextInPlace]_vars

\* C33 (no stale transform through in-place setters): every change to the pose or
\* scale data of a node, the in-place setters of the objects handed out by
\* get_pose() and get_scaling() included, is reflected by the next
\* get_world_transform of that node and of each of its descendants: a
\* get_world_transform that has just returned gave the product of the local
\* transforms, as the poses and scalings are now, from the root down to the node.
C33_NoStaleTransform ==
    (last.op = "get_world_transform" /\ last.exc = "none") =>
        last.ret = RefWorld(last.self)

\* --------------------------------------------------------------------------
\* Further properties of the player.
\* --------------------------------------------------------------------------

\* C34 (playing and finished are exclusive after an update): for every clip, a clip
\* with no tracks or of duration 0 included, and every non-looping player, after
\* any update(dt) call is_playing() and is_finished() are not both true.
C34_PlayingExcludesFinished ==
    (last.op = "update" /\ ~player.loop) =>
        ~(is_playing(player) /\ is_finished(player, clip, tracks).ret)

\* --------------------------------------------------------------------------
\* Playback to the end: a render loop that does nothing but call update, with a
\* frame time that never falls below a positive constant.
\* --------------------------------------------------------------------------

\* The lower bounds of the frame time, and the frame times of the loop.
MinDeltas == {1, 3, 6}
FrameDeltas == {d \in DeltaTimes : d > 0}

\* The state after the construction of node, clip and non-looping player, a
\* set_speed with a positive speed, and play(); the loop has its lower bound and
\* counts its frames modulo 2.
InitPlayback ==
    /\ varied \in {"axis", "quat"}
    /\ objs = {CubeNode}
    /\ pose = [n \in Node |-> PoseT]
    /\ scaling = [n \in Node |-> ScalingUnit]
    /\ parent = [n \in Node |-> None]
    /\ children = [n \in Node |-> <<>>]
    /\ local_transform_dirty = [n \in Node |-> TRUE]
    /\ world_transform_dirty = [n \in Node |-> TRUE]
    /\ local_transform_cache = [n \in Node |-> NoMatrix]
    /\ world_transform_cache = [n \in Node |-> NoMatrix]
    /\ tracks = PlayerTracks
    /\ clip = PlayerClip
    /\ found = <<>>
    /\ \E speed \in {sp \in Speeds : sp > 0} :
          player = play(set_speed(NewPlayer(FALSE), speed))
    /\ \E c \in MinDeltas : threads = [min_delta |-> c, frame |-> 0]
    /\ NoScene
    /\ last = Call("play", None, None, None, "none", NoPose)

\* One frame of the loop: player.update(delta_time).
RenderFrame(delta_time) ==
    /\ delta_time >= threads.min_delta
    /\ \E r \in {update(player, clip, tracks, delta_time)} :
          /\ player' = r.player
          /\ tracks' = r.tracks
          /\ last' = Call("update", None, delta_time, None, "none", NoPose)
    /\ threads' = [threads EXCEPT !.frame = 1 - @]
    /\ UNCHANGED <<hierarchyVars, varied, clip, found, sceneVars>>

NextPlayback == \E delta_time \in FrameDeltas : RenderFrame(delta_time)

\* The loop never stops calling update.
SpecPlayback == InitPlayback /\ [][NextPlayback]_vars /\ WF_vars(NextPlayback)

\* Playback has ended: the player is stopped at the duration of the clip.
PlaybackEnded == ~player.playing /\ player.current_time = PlayerDuration

\* The float times below the duration.
TimesBeforeEnd == {t \in 0..(PlayerDuration - 1) : Fl(t) = t}

\* Every frame the loop may run moves the time: at no float time below the duration
\* is delta_time * speed lost in the rounding of the sum.
EveryFrameAdvances ==
    \A t \in TimesBeforeEnd : \A d \in FrameDeltas :
        d >= threads.min_delta => FAdd(t, FMul(d, player.speed)) > t

\* The claim as stated: whatever the positive lower bound of dt, the player is
\* eventually stopped at the duration and stays so.
C35_AsStated == <>[]PlaybackEnded

\* C35 (playback eventually ends): a non-looping player over a clip of duration
\* D > 0, started with play() and with speed > 0, reaches after finitely many
\* update(dt) calls (dt bounded below by a positive constant, no other control call
\* in between) the state playing = false with current time = D and stays in it under
\* further updates, provided dt*speed is large enough to move the floating-point
\* current time at every time below D.
C35_EventuallyEnds == EveryFrameAdvances => <>[]PlaybackEnded

\* The axis-angle clip has been played to its end at 16 by a loop with lower bound
\* 3 and speed 1, whose frames all advance.
C35_Witness ==
    /\ varied = "axis"
    /\ threads.min_delta = 3
    /\ player.speed = 1
    /\ EveryFrameAdvances
    /\ last.op = "update"
    /\ PlaybackEnded
    /\ PlayerDuration = 16

\* ---------------------------------------------------------------------------
\* The sign of the playback time
\* ---------------------------------------------------------------------------

\* C36 (playback time is never negative): after any sequence of play, pause, stop,
\* set_time, set_speed and update calls with arbitrary arguments (negative
\* delta_time, negative speed and negative set_time arguments included), on a
\* looping or non-looping player, the current time is >= 0.
C36_TimeNeverNegative == player.current_time >= 0

\* ---------------------------------------------------------------------------
\* Keyframes that share their time
\* ---------------------------------------------------------------------------

\* The track tr had its i-th and j-th add_keyframe calls exchanged.
ExchangedAdds(tr, i, j) ==
    [tr EXCEPT !.keyframes =
        [k \in 1..Len(tr.keyframes) |->
            IF k = i THEN tr.keyframes[j]
            ELSE IF k = j THEN tr.keyframes[i]
            ELSE tr.keyframes[k]]]

\* Pairs of keyframes of the track with the same time and different poses.
CoincidentPairs(tr) ==
    {ij \in (1..Len(tr.keyframes)) \X (1..Len(tr.keyframes)) :
        /\ ij[1] < ij[2]
        /\ tr.keyframes[ij[1]].time = tr.keyframes[ij[2]].time
        /\ tr.keyframes[ij[1]].pose # tr.keyframes[ij[2]].pose}

\* C37 (coincident keyframe times): when a track holds several keyframes with the
\* same time but different poses, evaluate(t) for every t and policy returns the
\* same result regardless of the relative order in which those equal-time keyframes
\* were added.
C37_CoincidentOrderIrrelevant ==
    \A ij \in CoincidentPairs(tracks[1]) : \A t \in QueryTimes :
        evaluate(tracks[1], t).out
            = evaluate(ExchangedAdds(tracks[1], ij[1], ij[2]), t).out

\* ---------------------------------------------------------------------------
\* Hierarchy validation with a configurable depth threshold
\* ---------------------------------------------------------------------------

\* SceneObject.get_depth: the parent links are counted up to the root.
RECURSIVE CountParents(_, _, _)
CountParents(par, current, depth) ==
    IF current = None THEN depth
    ELSE CountParents(par, par[current], depth + 1)

get_depth(par, n) == CountParents(par, par[n], 0)

\* More children than this give a warning of their own.
ChildrenWarningThreshold == 100

\* The warning texts, by what they report.
DepthWarning(n, depth, threshold) ==
    [kind |-> "depth", object |-> n, depth |-> depth, threshold |-> threshold]
ChildrenWarning(n, count) ==
    [kind |-> "children", object |-> n, depth |-> count, threshold |-> ChildrenWarningThreshold]

\* SceneObject.validate_hierarchy: the node's own warnings, then those of its
\* children in list order, each child judged against its own threshold field.
RECURSIVE validate_hierarchy(_, _, _, _)
RECURSIVE ValidateChildren(_, _, _, _)
validate_hierarchy(par, kids, thresholds, n) ==
    LET depth == get_depth(par, n)
        deep == IF depth > thresholds[n]
                THEN <<DepthWarning(n, depth, thresholds[n])>> ELSE <<>>
        wide == IF Len(kids[n]) > ChildrenWarningThreshold
                THEN <<ChildrenWarning(n, Len(kids[n]))>> ELSE <<>>
    IN  deep \o wide \o ValidateChildren(par, kids, thresholds, kids[n])

ValidateChildren(par, kids, thresholds, list) ==
    IF list = <<>> THEN <<>>
    ELSE validate_hierarchy(par, kids, thresholds, Head(list))
             \o ValidateChildren(par, kids, thresholds, Tail(list))

\* SceneObject.set_depth_warning_threshold
set_depth_warning_threshold(thresholds, n, threshold) ==
    [thresholds EXCEPT ![n] = threshold]

\* Thresholds the client sets; the trees of the model are at most NumNodes - 1 deep.
Thresholds == {0, 1}

InitDepth ==
    /\ varied = "depth"
    /\ NoNodes
    /\ NoAnimation
    /\ NoPlayback
    /\ NoScene
    /\ last = Call("none", None, None, None, "none", NoMatrix)

SetDepthWarningThreshold(n, threshold) ==
    /\ depth_warning_threshold'
           = set_depth_warning_threshold(depth_warning_threshold, n, threshold)
    /\ last' = Call("set_depth_warning_threshold", n, threshold, None, "none", NoMatrix)
    /\ UNCHANGED <<hierarchyVars, varied, animationVars, playbackVars, scene>>

ValidateHierarchy(n) ==
    /\ last' = Call("validate_hierarchy", n, None, None, "none",
                    validate_hierarchy(parent, children, depth_warning_threshold, n))
    /\ UNCHANGED <<hierarchyVars, varied, animationVars, playbackVars, sceneVars>>

NextDepth ==
    \/ \E par \in objs \cup {None} : New(PoseT, ScalingUnit, par)
    \/ \E n \in objs, p \in objs \cup {None} : SetParent(n, p)
    \/ \E n \in objs, threshold \in Thresholds : SetDepthWarningThreshold(n, threshold)
    \/ \E n \in objs : ValidateHierarchy(n)

SpecDepth == InitDepth /\ [][NextDepth]_vars

\* The objects that the depth warnings of a list of warnings name.
DepthWarned(warnings) ==
    {warnings[i].object : i \in {k \in 1..Len(warnings) : warnings[k].kind = "depth"}}

\* The threshold was set on the root r and on no other node of its subtree.
ThresholdSetOnRootOnly(r) ==
    /\ parent[r] = None
    /\ \A m \in Descendants(r) : depth_warning_threshold[m] = DefaultDepthWarningThreshold

\* C38 (configurable depth validation): after root.set_depth_warning_threshold(k) on
\* the root of a hierarchy, root.validate_hierarchy() returns a warning for every
\* node of root's subtree whose depth (number of ancestors) exceeds k, and no depth
\* warning when no node's depth exceeds k; without such a call the threshold is 15.
C38_DepthValidation ==
    /\ (last.op = "validate_hierarchy" /\ ThresholdSetOnRootOnly(last.self)) =>
           DepthWarned(last.ret)
               = {m \in {last.self} \cup Descendants(last.self) :
                     Cardinality(Ancestors(m)) > depth_warning_threshold[last.self]}
    /\ last.op = "__init__" =>
           depth_warning_threshold[last.self] = DefaultDepthWarningThreshold

\* ---------------------------------------------------------------------------
\* The lights of a Scene
\* ---------------------------------------------------------------------------

\* The number of OpenGL lights (GL_LIGHT0 .. GL_LIGHT7).
MaxLights == 8

\* The lights the client owns: one more than a scene can hold.
NumLights == 9
Lights == 1..NumLights

\* Scene.__init__
NewScene == [lights |-> <<>>, light_wrappers |-> <<>>, next_light_index |-> 0]

\* lst.index(x)
IndexIn(lst, x) == CHOOSE k \in 1..Len(lst) : lst[k] = x /\ \A m \in 1..(k - 1) : lst[m] # x

\* lst.pop(idx), with idx counted from 1
PopAt(lst, idx) == SubSeq(lst, 1, idx - 1) \o SubSeq(lst, idx + 1, Len(lst))

\* OpenGLLightWrapper(light, index=index)
OpenGLLightWrapper(light, index) == [light |-> light, index |-> index]

\* Scene.add_light
add_light(sc, light) ==
    IF sc.next_light_index >= MaxLights
    THEN [scene |-> sc, exc |-> "ValueError"]
    ELSE IF ~In(light, sc.lights)
    THEN [scene |-> [lights |-> Append(sc.lights, light),
                     light_wrappers |-> Append(sc.light_wrappers,
                                               OpenGLLightWrapper(light, sc.next_light_index)),
                     next_light_index |-> sc.next_light_index + 1],
          exc |-> "none"]
    ELSE [scene |-> sc, exc |-> "none"]

\* Scene.remove_light
remove_light(sc, light) ==
    IF In(light, sc.lights)
    THEN LET idx == IndexIn(sc.lights, light)
         IN  [sc EXCEPT !.lights = PopAt(@, idx), !.light_wrappers = PopAt(@, idx)]
    ELSE sc

\* Scene.clear_lights
clear_lights(sc) ==
    [sc EXCEPT !.lights = <<>>, !.light_wrappers = <<>>, !.next_light_index = 0]

InitScene ==
    /\ varied = "lights"
    /\ NoNodes
    /\ NoAnimation
    /\ NoPlayback
    /\ depth_warning_threshold = [n \in Node |-> DefaultDepthWarningThreshold]
    /\ scene = NewScene
    /\ last = Call("__init__", None, None, None, "none", NoMatrix)

\* A call on the scene: the scene it leaves, and the lights it found.
CommitScene(op, light, sc, exc) ==
    /\ scene' = sc
    /\ last' = Call(op, None, light, scene.lights, exc, NoMatrix)
    /\ UNCHANGED <<hierarchyVars, varied, animationVars, playbackVars,
                   depth_warning_threshold>>

\* Lights are interchangeable, so of the lights outside the scene the client passes
\* the one with the least identity; of the lights in the scene it passes any.
LightsToPass ==
    {l \in Lights : In(l, scene.lights) \/ \A m \in 1..(l - 1) : In(m, scene.lights)}

AddLight(light) ==
    \E r \in {add_light(scene, light)} : CommitScene("add_light", light, r.scene, r.exc)

RemoveLight(light) ==
    CommitScene("remove_light", light, remove_light(scene, light), "none")

ClearLights == CommitScene("clear_lights", None, clear_lights(scene), "none")

NextScene ==
    \/ \E light \in LightsToPass : AddLight(light)
    \/ \E light \in LightsToPass : RemoveLight(light)
    \/ ClearLights

SpecScene == InitScene /\ [][NextScene]_vars

\* The index the scene gave to a light it holds.
LightIndex(sc, light) == sc.light_wrappers[IndexIn(sc.lights, light)].index

\* C39 (scene light capacity): after any sequence of add_light, remove_light and
\* clear_lights calls, add_light(light) for a light not yet in the scene fails with
\* the maximum-lights error only when the scene currently holds 8 lights; whenever
\* it holds fewer than 8, the light is added and receives an index in 0..7 that
\* differs from the index of every other light currently in the scene.
C39_LightCapacity ==
    (last.op = "add_light" /\ ~In(last.arg, last.old)) =>
        /\ last.exc = "ValueError" => Len(last.old) = MaxLights
        /\ Len(last.old) < MaxLights =>
               /\ last.exc = "none"
               /\ In(last.arg, scene.lights)
               /\ LightIndex(scene, last.arg) \in 0..(MaxLights - 1)
               /\ \A other \in Lights \ {last.arg} :
                      In(other, scene.lights) =>
                          LightIndex(scene, other) # LightIndex(scene, last.arg)

====
